---- MODULE Spec2Model ----
(***************************************************************************)
(* Model of the slack-code session-tracking daemon: the Session Store      *)
(* (crates/slack-code-daemon/src/session.rs), the session types            *)
(* (crates/slack-code-common/src/session.rs) and the event loop of         *)
(* Daemon::run (crates/slack-code-daemon/src/daemon.rs).                    *)
(*                                                                         *)
(* Option<T> is modelled as a sequence of length at most one:              *)
(* None is <<>> and Some(x) is <<x>>.  Strings whose characters matter     *)
(* (notification messages) are sequences of one-character strings.         *)
(***************************************************************************)
EXTENDS Integers, Sequences, FiniteSets, TLC

\* ---------------------------------------------------------------- bounds
\* Number of internal identifiers Uuid::new_v4 may hand out in one run.
MaxUuid == 2
\* Largest reading of the wall clock (Utc::now).
MaxTime == 1
\* Number of messages (hook events and commands together) the transport
\* forwards to the loop in one run of the daemon.
MaxInputs == 3

\* SpecBus: events published on the broadcast topic.
MaxPublished == 102

\* SpecBus: commands waiting in the command channel.
MaxQueued == 1

\* SpecBus: a connection subscribes after at most this many events.
MaxSubscribeAt == 1

\* SpecLife: start invocations against the same PID file and socket path.
MaxProcs == 2

\* Connections the listener has open at a time.
MaxConns == 2

\* Events published while connections are followed.
MaxEvents == 1

\* ---------------------------------------------------------------- Option
None == <<>>

Some(x) == <<x>>

IsSome(o) == o # <<>>

Unwrap(o) == o[1]

\* ---------------------------------------------------------------- inputs
\* External (Claude) session identifiers carried by hook events.
ExtIds == {"abc", "zzz"}

Cwds == {"/tmp/x"}

TranscriptPaths == {Some("/t.jsonl")}

\* Notification classifier strings (Option<String>).
NotificationTypes ==
    {None, Some("permission_prompt"), Some("idle_prompt"), Some("elicitation_dialog")}

\* Notification messages, as sequences of characters.
MsgApprove == <<"o", "k">>

MsgPlanMixed == <<"a", " ", "P", "l", "a", "n">>

MsgAlmostPlan == <<"p", "l", "a", " ", "n">>

\* ------------------------------------------------------- session types
Starting == <<"Starting">>

Running == <<"Running">>

Completed == <<"Completed">>

WaitingForInput(reason) == <<"WaitingForInput", reason>>

Failed(err) == <<"Failed", err>>

\* Session::is_active
is_active(s) ==
    \/ s.status = Starting
    \/ s.status = Running
    \/ s.status[1] = "WaitingForInput"

\* WaitReason::from_notification_type
from_notification_type(s) ==
    CASE s = "permission_prompt" -> "PermissionPrompt"
      [] s = "idle_prompt" -> "IdlePrompt"
      [] OTHER -> "IdlePrompt"

\* Session::new
Session_new(uuid, repo_path, repo_alias, prompt, t) ==
    [id |-> uuid, claude_session_id |-> None, repo_path |-> repo_path,
     repo_alias |-> repo_alias, prompt |-> prompt, status |-> Starting,
     started_at |-> t, ended_at |-> None, slack_thread |-> None,
     transcript_path |-> None]

\* ------------------------------------------------------- string helpers
\* char::to_lowercase on the characters that occur in Messages.
to_lowercase_char(c) ==
    CASE c = "P" -> "p"
      [] c = "L" -> "l"
      [] c = "A" -> "a"
      [] c = "N" -> "n"
      [] OTHER -> c

\* str::to_lowercase
to_lowercase_identity(m) == m

to_lowercase(m) == [i \in 1..Len(m) |-> to_lowercase_char(m[i])]

\* str::contains
contains(m, pat) ==
    \E i \in 1..(Len(m) - Len(pat) + 1) : SubSeq(m, i, i + Len(pat) - 1) = pat

PlanPattern == <<"p", "l", "a", "n">>

\* ---------------------------------------------------------- hook events
SessionStartEvents ==
    [type : {"SessionStart"}, session_id : ExtIds,
     transcript_path : TranscriptPaths, cwd : Cwds]

SessionEndEvents == [type : {"SessionEnd"}, session_id : ExtIds]

\* Message and classifier pairs carried by notification events.
Notifications ==
    ({MsgApprove} \X NotificationTypes) \cup
    ({MsgPlanMixed} \X {None, Some("permission_prompt")}) \cup
    ({MsgAlmostPlan} \X {Some("permission_prompt")})

NotificationEvents ==
    {[type |-> "Notification", session_id |-> x, message |-> n[1],
      notification_type |-> n[2]] : x \in ExtIds, n \in Notifications}

StopEvents == [type : {"Stop"}, session_id : ExtIds]

HookEvents ==
    SessionStartEvents \cup SessionEndEvents \cup NotificationEvents \cup StopEvents


\* --------------------------------------------------------------- state
VARIABLES
    sessions,        \* SessionManager.sessions: HashMap<Uuid, Session>
    claude_id_map,   \* SessionManager.claude_id_map: HashMap<String, Uuid>
    next_uuid,       \* the next value Uuid::new_v4 hands out (always fresh)
    now,             \* the reading of the wall clock, Utc::now()
    ret,             \* value returned by the last store operation
    last_call,       \* the last store operation and the kind of its argument
    hook_rx,         \* the hook-inbound mpsc channel (daemon.rs:204)
    command_rx,      \* the command-inbound mpsc channel (daemon.rs:205)
    event_tx,        \* DaemonEvents sent on the broadcast topic by the last loop iteration
    slack_service,   \* whether a SlackService was constructed (daemon.rs:212-226)
    dm_channel_id,   \* SlackService.dm_channel_id
    slack_ts,        \* ts of the last message the Slack API accepted
    slack_calls,     \* notifier calls made by the last loop iteration, with their results
    loop_state,      \* "running", "stopped" (loop left by break) or "panicked"
    signals,         \* termination signals delivered and not yet serviced
    accepted,        \* messages the transport has forwarded to the loop so far
    published,       \* events sent on the broadcast topic so far (the position of its tail)
    subscriber,      \* the connection task that serves a Subscribe command (ipc.rs:110-131)
    wrote,           \* frames the transport wrote to connections in the last step
    codec,           \* one connection's byte stream with its writer and its reader
    pid_file,        \* content of the PID file (config.daemon.pid_file), None when absent
    pid_lock,        \* the process that holds the lock on the PID file, 0 when free
    socket_file,     \* the process whose listener created the socket file, None when absent
    procs,           \* the start invocations and the daemon processes they become
    probe,           \* result of the last liveness probe made from the command line
    stopper,         \* the invocation of `daemon stop` and how far it has got
    hook_client,     \* one run of the hook binary: its input and what it did with it
    iteration,       \* where the event loop is inside its current iteration
    conns,           \* the connection tasks spawned by the listener (ipc.rs:69)
    flood,           \* the kind of message most clients send in this run
    ipc_task         \* the task that runs IpcServer::run and owns hook_tx and command_tx

storeVars == <<sessions, claude_id_map, next_uuid, now, ret, last_call>>

daemonVars == <<hook_rx, command_rx, event_tx, slack_service, dm_channel_id, slack_ts,
                slack_calls, loop_state, signals, accepted>>

\* The broadcast topic as its subscribers see it.
busVars == <<published, subscriber, wrote>>

\* The wire between one client and the connection task that reads from it.
codecVars == <<codec>>

\* The PID file, the socket file and the processes started against them.
lifeVars == <<pid_file, pid_lock, socket_file, procs, probe>>

\* The stop operation run from the command line.
stopVars == <<stopper>>

\* The hook binary.
hookVars == <<hook_client>>

\* The event loop's position between two select! calls.
iterVars == <<iteration>>

\* The connections the listener has accepted.
connVars == <<conns, flood>>

\* The listener task.
taskVars == <<ipc_task>>

\* What the codec and the start invocations never touch.
extraVars == <<stopVars, hookVars, iterVars, connVars, taskVars>>

\* What the store and the loop never touch.
otherVars == <<codecVars, lifeVars, extraVars>>

vars == <<storeVars, daemonVars, busVars, otherVars>>

Uuids == 1..MaxUuid

\* SlackThread values: a DM channel and the ts of the parent message.
SlackThreads == [channel_id : {"D1"}, parent_ts : {1}]

\* HashMap::insert
Insert(f, k, v) == [x \in (DOMAIN f) \cup {k} |-> IF x = k THEN v ELSE f[x]]

\* HashMap::remove for a set of keys
RemoveKeys(f, ks) == [x \in (DOMAIN f) \ ks |-> f[x]]

\* --------------------------------------------------------- Session Store
\* claude_id_map.get(&session_id) followed by sessions.get_mut(&our_id):
\* Some(our_id) when both lookups succeed.
Lookup_miss(S, M, ext) == None

Lookup(S, M, ext) ==
    IF ext \in DOMAIN M /\ M[ext] \in DOMAIN S THEN Some(M[ext]) ELSE None

\* The statusChanged flag of the pair that Daemon::run destructures
\* (daemon.rs:259): whether the status after the event differs from the
\* status before it.
StatusChanged(old, new) == old # new

Returned(s, changed) == Some([session |-> s, status_changed |-> changed])

\* handle_hook_event, HookEvent::SessionStart, session already registered:
\* the record is updated in place (session.rs:53-55).
restart_session_fresh(old, uuid) == [old EXCEPT !.status = Running, !.id = uuid]

restart_session(old, uuid) == [old EXCEPT !.status = Running]

\* handle_hook_event, HookEvent::SessionStart, new session.
created_status_starting == Starting

created_status == Running

handle_session_start(S, M, e, uuid, t) ==
    LET found == Lookup(S, M, e.session_id) IN
    IF IsSome(found)
    THEN LET our_id == Unwrap(found)
             session == restart_session(S[our_id], uuid)
         IN [sessions |-> [S EXCEPT ![our_id] = session],
             claude_id_map |-> M,
             ret |-> Returned(session, StatusChanged(S[our_id].status, session.status))]
    ELSE LET fresh == Session_new(uuid, e.cwd, None, "External session", t)
             session == [fresh EXCEPT !.claude_session_id = Some(e.session_id),
                                      !.transcript_path = e.transcript_path,
                                      !.status = created_status]
         IN [sessions |-> Insert(S, fresh.id, session),
             claude_id_map |-> Insert(M, e.session_id, fresh.id),
             ret |-> Returned(session, TRUE)]

\* The lookup by external identifier missed: nothing is touched and None is
\* returned (session.rs:83, 110, 121).
lookup_missed_registers(S, M, e) ==
    [sessions |-> S, claude_id_map |-> Insert(M, e.session_id, 0), ret |-> None]

lookup_missed(S, M, e) == [sessions |-> S, claude_id_map |-> M, ret |-> None]

\* handle_hook_event, HookEvent::SessionEnd.
end_timestamp_unset(t) == None

end_timestamp(t) == Some(t)

handle_session_end(S, M, e, t) ==
    LET found == Lookup(S, M, e.session_id) IN
    IF IsSome(found)
    THEN LET our_id == Unwrap(found)
             session == [S[our_id] EXCEPT !.status = Completed,
                                          !.ended_at = end_timestamp(t)]
         IN [sessions |-> [S EXCEPT ![our_id] = session],
             claude_id_map |-> M,
             ret |-> Returned(session, StatusChanged(S[our_id].status, session.status))]
    ELSE lookup_missed(S, M, e)

\* The wait reason computed by the Notification branch (session.rs:94-104).
wait_reason(message, notification_type) ==
    LET r == IF IsSome(notification_type)
             THEN from_notification_type(Unwrap(notification_type))
             ELSE "IdlePrompt"
    IN IF contains(to_lowercase(message), PlanPattern) THEN "PlanApproval" ELSE r

\* handle_hook_event, HookEvent::Notification.
handle_notification(S, M, e) ==
    LET found == Lookup(S, M, e.session_id) IN
    IF IsSome(found)
    THEN LET our_id == Unwrap(found)
             session == [S[our_id] EXCEPT !.status =
                            WaitingForInput(wait_reason(e.message, e.notification_type))]
         IN [sessions |-> [S EXCEPT ![our_id] = session],
             claude_id_map |-> M,
             ret |-> Returned(session, StatusChanged(S[our_id].status, session.status))]
    ELSE lookup_missed(S, M, e)

\* handle_hook_event, HookEvent::Stop.
stop_status == WaitingForInput("IdlePrompt")

handle_stop(S, M, e) ==
    LET found == Lookup(S, M, e.session_id) IN
    IF IsSome(found)
    THEN LET our_id == Unwrap(found)
             session == [S[our_id] EXCEPT !.status = stop_status]
         IN [sessions |-> [S EXCEPT ![our_id] = session],
             claude_id_map |-> M,
             ret |-> Returned(session, StatusChanged(S[our_id].status, session.status))]
    ELSE lookup_missed(S, M, e)

\* SessionManager::handle_hook_event
handle_hook_event(S, M, e, uuid, t) ==
    CASE e.type = "SessionStart" -> handle_session_start(S, M, e, uuid, t)
      [] e.type = "SessionEnd" -> handle_session_end(S, M, e, t)
      [] e.type = "Notification" -> handle_notification(S, M, e)
      [] e.type = "Stop" -> handle_stop(S, M, e)

\* Whether handle_hook_event calls Session::new (and so Uuid::new_v4).
Creates(S, M, e) == e.type = "SessionStart" /\ Lookup(S, M, e.session_id) = None

\* SessionManager::set_slack_thread
set_slack_thread(S, session_id, thread) ==
    IF session_id \in DOMAIN S
    THEN [S EXCEPT ![session_id].slack_thread = Some(thread)]
    ELSE S

\* SessionManager::get_sessions (the Vec is in HashMap order: a set)
get_sessions_active(S) == {S[id] : id \in {x \in DOMAIN S : is_active(S[x])}}

get_sessions(S) == {S[id] : id \in DOMAIN S}

\* SessionManager::cleanup_old_sessions
to_remove_any_age(S, max_age, t) == {id \in DOMAIN S : ~is_active(S[id])}

to_remove(S, max_age, t) ==
    {id \in DOMAIN S :
        /\ ~is_active(S[id])
        /\ IF IsSome(S[id].ended_at) THEN t - Unwrap(S[id].ended_at) > max_age ELSE FALSE}

\* cleanup_old_sessions (session.rs:134-152): the records to_remove selects
\* leave the registry, each with the index entry of its external identifier.
cleanup_old_sessions_keeps_index(S, M, max_age, t) ==
    [sessions |-> RemoveKeys(S, to_remove(S, max_age, t)), claude_id_map |-> M]

cleanup_old_sessions(S, M, max_age, t) ==
    LET gone == to_remove(S, max_age, t)
        exts == {Unwrap(S[id].claude_session_id) :
                    id \in {g \in gone : IsSome(S[g].claude_session_id)}}
    IN [sessions |-> RemoveKeys(S, gone),
        claude_id_map |-> RemoveKeys(M, exts)]

\* ------------------------------------------------ store-level operations
\* SessionManager::new
StoreInit ==
    /\ sessions = <<>>
    /\ claude_id_map = <<>>
    /\ next_uuid = 1
    /\ now = 0
    /\ ret = None
    /\ last_call = [op |-> "new"]

\* The daemon part of the state when only the Session Store is exercised.
DaemonIdle ==
    /\ hook_rx = <<>>
    /\ command_rx = <<>>
    /\ event_tx = <<>>
    /\ slack_service = FALSE
    /\ dm_channel_id = None
    /\ slack_ts = 0
    /\ slack_calls = <<>>
    /\ loop_state = "running"
    /\ signals = {}
    /\ accepted = 0

\* The wall clock advances.
Tick ==
    /\ now < MaxTime
    /\ now' = now + 1
    /\ UNCHANGED <<sessions, claude_id_map, next_uuid, ret, last_call>>

\* A call of handle_hook_event(e).
HandleHookEventOf(e) ==
    /\ Creates(sessions, claude_id_map, e) => next_uuid <= MaxUuid
    /\ \E r \in {handle_hook_event(sessions, claude_id_map, e, next_uuid, now)} :
        /\ sessions' = r.sessions
        /\ claude_id_map' = r.claude_id_map
        /\ ret' = r.ret
        /\ next_uuid' = IF Creates(sessions, claude_id_map, e)
                        THEN next_uuid + 1 ELSE next_uuid
    /\ last_call' = [op |-> "handle_hook_event", event |-> e]
    /\ UNCHANGED now

HandleHookEvent == \E e \in HookEvents : HandleHookEventOf(e)

\* A call of set_slack_thread(session_id, thread).
SetSlackThread ==
    \E id \in Uuids, thread \in SlackThreads :
        /\ sessions' = set_slack_thread(sessions, id, thread)
        /\ ret' = None
        /\ last_call' = [op |-> "set_slack_thread"]
        /\ UNCHANGED <<claude_id_map, next_uuid, now>>

\* A call of cleanup_old_sessions(max_age).
CleanupOldSessions ==
    \E max_age \in 0..MaxTime :
        /\ LET r == cleanup_old_sessions(sessions, claude_id_map, max_age, now) IN
            /\ sessions' = r.sessions
            /\ claude_id_map' = r.claude_id_map
        /\ ret' = None
        /\ last_call' = [op |-> "cleanup_old_sessions", max_age |-> max_age]
        /\ UNCHANGED <<next_uuid, now>>

\* No connection has subscribed to the broadcast topic.
BusIdle ==
    /\ published = 0
    /\ subscriber = [state |-> "closed"]
    /\ wrote = <<>>

\* No connection is open.
CodecIdle ==
    codec = [writer |-> "idle", reader |-> "idle", sent |-> None, json |-> None,
             stream |-> <<>>, len |-> None, msg |-> None, parsed |-> None]

\* Start invocations, numbered; an invocation that daemonizes runs as the
\* process with that number as its pid.
Procs == 1..MaxProcs

\* The pid of a daemon of an earlier run, dead by now.
StalePid == MaxProcs + 1

\* The identifier of a live process that is not a daemon.
ForeignPid == MaxProcs + 2

\* No start has been invoked; no PID file and no socket file exist.
LifeIdle ==
    /\ pid_file = None
    /\ pid_lock = 0
    /\ socket_file = None
    /\ procs = [p \in Procs |-> [pc |-> "idle", ipc |-> "none"]]
    /\ probe = None

\* No stop has been invoked.
StopIdle == stopper = [pc |-> "idle", pid |-> 0, outcome |-> "none", turn |-> 0, polls |-> 0]

\* The hook binary has not been run.
HookIdle == hook_client = [pc |-> "idle"]

\* The event loop is at select! (daemon.rs:253).
AtSelect == [pc |-> "select", call |-> "none", session |-> None, status_changed |-> FALSE]

IterIdle == iteration = AtSelect

\* Connection slots; a slot is free until the listener accepts a connection.
ConnIds == 1..MaxConns

FreeConn == [pc |-> "free", msg |-> "none", next |-> 0]

\* No connection has been accepted.
ConnIdle == conns = [c \in ConnIds |-> FreeConn] /\ flood = "none"

\* The listener task is running.
TaskIdle == ipc_task = "listening"

ExtraIdle == StopIdle /\ HookIdle /\ IterIdle /\ ConnIdle /\ TaskIdle

OtherIdle == CodecIdle /\ LifeIdle /\ ExtraIdle

StoreNext ==
    \/ Tick /\ UNCHANGED <<daemonVars, busVars, otherVars>>
    \/ HandleHookEvent /\ UNCHANGED <<daemonVars, busVars, otherVars>>
    \/ SetSlackThread /\ UNCHANGED <<daemonVars, busVars, otherVars>>
    \/ CleanupOldSessions /\ UNCHANGED <<daemonVars, busVars, otherVars>>

\* SessionManager::new() with the daemon idle.
InitStore == StoreInit /\ DaemonIdle /\ BusIdle /\ OtherIdle

SpecStore == InitStore /\ [][StoreNext]_vars


\* ------------------------------------------------------------ the daemon
\* The loop reads the clock only through the store (Session::new and the
\* SessionEnd branch); Spec holds the reading fixed, SpecStore lets it advance.
\* Capacity of the hook and command channels (mpsc::channel(100)).
ChannelCapacity == 100

\* Hook events the transport forwards in the daemon specification.
DaemonHookEvents ==
    SessionStartEvents \cup SessionEndEvents \cup StopEvents \cup
    [type : {"Notification"}, session_id : ExtIds, message : {MsgPlanMixed},
     notification_type : {Some("permission_prompt")}]

\* DaemonCommand values.
DaemonCommands == {"Subscribe", "Unsubscribe", "GetSessions", "GetConfig", "Ping"}

\* ipc.rs:109-110: the commands handle_connection serves itself; every other
\* command takes the `_ =>` arm.
handled_in_transport_none(cmd) == FALSE

handled_in_transport(cmd) == cmd = "Subscribe"

\* Commands the transport forwards to the command channel (ipc.rs:132-135).
ForwardedCommands == {cmd \in DaemonCommands : ~handled_in_transport(cmd)}

\* DaemonEvent values.
SessionUpdated(s) == [type |-> "SessionUpdated", session |-> s]

SessionList(ss) == [type |-> "SessionList", sessions |-> ss]

\* The configuration the daemon was constructed with (Daemon.config).
DaemonConfig == [socket_path |-> "daemon.sock", pid_file |-> "daemon.pid"]

ConfigResponse == [type |-> "ConfigResponse", config |-> DaemonConfig]

StatusConnected == [type |-> "Status", status |-> "Connected"]

\* Results of SlackService::post_session_start: ensure_dm_channel may fail
\* only while no DM channel is cached; chat.postMessage may fail.
StartOutcomes(dm) ==
    {"ok", "post_failed"} \cup (IF dm = None THEN {"open_failed"} ELSE {})

\* Results of the chat.postMessage call of SlackService::post_thread_reply.
ReplyOutcomes == {"ok", "err"}

\* daemon.rs:261: the record returned by the store has no Slack thread.
thread_missing_always(session) == TRUE

thread_missing(session) == session.slack_thread = None

\* daemon.rs:275: the branch that posts a status update.
posts_update_always(status_changed) == TRUE

posts_update(status_changed) == status_changed

\* slack.rs:131: format_status_message reaches unreachable!().
format_status_message_panics(session) == session.status = Completed

\* daemon.rs:270-272 and 280-282: an Err from the notifier is only logged.
after_notifier_result_propagate(result) == IF result = "ok" THEN "running" ELSE "stopped"

after_notifier_result(result) == "running"

\* daemon.rs:288: what the iteration sends on the broadcast topic when the
\* store returned a record.
broadcast_update(session, status_changed) == <<SessionUpdated(session)>>

Init ==
    /\ StoreInit
    /\ hook_rx = <<>>
    /\ command_rx = <<>>
    /\ event_tx = <<>>
    /\ slack_service \in BOOLEAN
    /\ dm_channel_id = None
    /\ slack_ts = 0
    /\ slack_calls = <<>>
    /\ loop_state = "running"
    /\ signals = {}
    /\ accepted = 0
    /\ BusIdle
    /\ OtherIdle

\* mpsc::Sender::send (ipc.rs:101 and 134): the value goes to the back of the
\* channel's queue.
mpsc_send_front(queue, value) == <<value>> \o queue

mpsc_send(queue, value) == Append(queue, value)

\* ipc.rs:99-102: a connection task forwards a parsed HookEvent.
TransportSendHook ==
    \E e \in DaemonHookEvents :
        /\ loop_state = "running"
        /\ accepted < MaxInputs
        /\ Len(hook_rx) < ChannelCapacity
        /\ hook_rx' = mpsc_send(hook_rx, e)
        /\ accepted' = accepted + 1
        /\ UNCHANGED <<storeVars, command_rx, event_tx, slack_service, dm_channel_id,
                       slack_ts, slack_calls, loop_state, signals>>

\* ipc.rs:132-135: a connection task forwards a command other than Subscribe.
TransportSendCommand ==
    \E cmd \in ForwardedCommands :
        /\ loop_state = "running"
        /\ accepted < MaxInputs
        /\ Len(command_rx) < ChannelCapacity
        /\ command_rx' = mpsc_send(command_rx, cmd)
        /\ accepted' = accepted + 1
        /\ UNCHANGED <<storeVars, hook_rx, event_tx, slack_service, dm_channel_id,
                       slack_ts, slack_calls, loop_state, signals>>

\* A termination signal is delivered to the process.
DeliverSignal ==
    \E sig \in {"SIGTERM", "SIGINT"} :
        /\ loop_state = "running"
        /\ sig \notin signals
        /\ signals' = signals \cup {sig}
        /\ UNCHANGED <<storeVars, hook_rx, command_rx, event_tx, slack_service,
                       dm_channel_id, slack_ts, slack_calls, loop_state,
                       accepted>>

\* daemon.rs:255-290: one iteration of the loop that receives a hook event.
\* outcome is the result of the notifier call, if the iteration makes one.
LoopHookOf(e, outcome) ==
    /\ loop_state = "running"
    /\ hook_rx # <<>>
    /\ e = Head(hook_rx)
    /\ hook_rx' = Tail(hook_rx)
    /\ Creates(sessions, claude_id_map, e) => next_uuid <= MaxUuid
    /\ next_uuid' = IF Creates(sessions, claude_id_map, e) THEN next_uuid + 1 ELSE next_uuid
    /\ last_call' = [op |-> "handle_hook_event", event |-> e]
    /\ \E r \in {handle_hook_event(sessions, claude_id_map, e, next_uuid, now)} :
        /\ ret' = r.ret
        /\ claude_id_map' = r.claude_id_map
        /\ IF r.ret = None
           THEN \* the store returned no record
                /\ outcome = "none"
                /\ sessions' = r.sessions
                /\ UNCHANGED <<dm_channel_id, slack_ts, loop_state>>
                /\ slack_calls' = <<>>
                /\ event_tx' = <<>>
           ELSE LET session == Unwrap(r.ret).session
                    status_changed == Unwrap(r.ret).status_changed
                IN
                IF thread_missing(session)
                THEN IF slack_service
                     THEN \* post_session_start
                          /\ outcome \in StartOutcomes(dm_channel_id)
                          /\ dm_channel_id' = IF outcome = "open_failed"
                                              THEN dm_channel_id ELSE Some("D1")
                          /\ slack_calls' = <<[call |-> "post_session_start",
                                               session_id |-> session.id,
                                               result |-> outcome]>>
                          /\ loop_state' = after_notifier_result(outcome)
                          /\ IF outcome = "ok"
                             THEN LET thread == [channel_id |-> "D1",
                                                 parent_ts |-> slack_ts + 1]
                                  IN /\ slack_ts' = slack_ts + 1
                                     /\ sessions' = set_slack_thread(r.sessions,
                                                                     session.id, thread)
                                     /\ event_tx' = broadcast_update(
                                            [session EXCEPT !.slack_thread = Some(thread)],
                                            status_changed)
                             ELSE /\ slack_ts' = slack_ts
                                  /\ sessions' = r.sessions
                                  /\ event_tx' = broadcast_update(session, status_changed)
                     ELSE /\ outcome = "none"
                          /\ sessions' = r.sessions
                          /\ UNCHANGED <<dm_channel_id, slack_ts, loop_state>>
                          /\ slack_calls' = <<>>
                          /\ event_tx' = broadcast_update(session, status_changed)
                ELSE IF posts_update(status_changed) /\ slack_service
                     THEN \* post_thread_reply
                          IF format_status_message_panics(session)
                          THEN /\ outcome = "panic"
                               /\ sessions' = r.sessions
                               /\ UNCHANGED <<dm_channel_id, slack_ts>>
                               /\ slack_calls' = <<>>
                               /\ event_tx' = <<>>
                               /\ loop_state' = "panicked"
                          ELSE /\ outcome \in ReplyOutcomes
                               /\ sessions' = r.sessions
                               /\ dm_channel_id' = dm_channel_id
                               /\ slack_ts' = IF outcome = "ok" THEN slack_ts + 1
                                              ELSE slack_ts
                               /\ slack_calls' = <<[call |-> "post_thread_reply",
                                                    session_id |-> session.id,
                                                    result |-> outcome]>>
                               /\ loop_state' = after_notifier_result(outcome)
                               /\ event_tx' = broadcast_update(session, status_changed)
                     ELSE /\ outcome = "none"
                          /\ sessions' = r.sessions
                          /\ UNCHANGED <<dm_channel_id, slack_ts, loop_state>>
                          /\ slack_calls' = <<>>
                          /\ event_tx' = broadcast_update(session, status_changed)
    /\ UNCHANGED <<now, command_rx, slack_service, signals, accepted>>

LoopOutcomes == {"none", "ok", "err", "post_failed", "open_failed", "panic"}

LoopHook == \E e \in DaemonHookEvents, outcome \in LoopOutcomes : LoopHookOf(e, outcome)

\* daemon.rs:293-310: one iteration of the loop that receives a command.
command_response(cmd, S) ==
    CASE cmd = "GetSessions" -> <<SessionList(get_sessions(S))>>
      [] cmd = "GetConfig" -> <<ConfigResponse>>
      [] cmd = "Ping" -> <<StatusConnected>>
      [] OTHER -> <<>>

LoopCommand ==
    /\ loop_state = "running"
    /\ command_rx # <<>>
    /\ command_rx' = Tail(command_rx)
    /\ event_tx' = command_response(Head(command_rx), sessions)
    /\ slack_calls' = <<>>
    /\ ret' = None
    /\ last_call' = [op |-> "command", command |-> Head(command_rx)]
    /\ UNCHANGED <<sessions, claude_id_map, next_uuid, now, hook_rx, slack_service,
                   dm_channel_id, slack_ts, loop_state, signals, accepted>>

\* daemon.rs:313-322: the branch of either signal logs and breaks.
after_signal_continue == "running"

after_signal == "stopped"

\* daemon.rs:312-322: the loop services SIGTERM or SIGINT and breaks.
LoopSignal ==
    /\ loop_state = "running"
    /\ signals # {}
    /\ loop_state' = after_signal
    /\ UNCHANGED <<storeVars, hook_rx, command_rx, event_tx, slack_service,
                   dm_channel_id, slack_ts, slack_calls, signals, accepted>>

\* Spec follows the loop and what each iteration sends (event_tx); the
\* subscribers of the topic are followed in SpecBus.
Next ==
    \/ TransportSendHook /\ UNCHANGED <<busVars, otherVars>>
    \/ TransportSendCommand /\ UNCHANGED <<busVars, otherVars>>
    \/ DeliverSignal /\ UNCHANGED <<busVars, otherVars>>
    \/ LoopHook /\ UNCHANGED <<busVars, otherVars>>
    \/ LoopCommand /\ UNCHANGED <<busVars, otherVars>>
    \/ LoopSignal /\ UNCHANGED <<busVars, otherVars>>

Spec == Init /\ [][Next]_vars


\* ------------------------------------------------------ the broadcast topic
\* SpecBus follows one subscriber of the broadcast topic while requester
\* connections send commands and the loop publishes the responses. An event
\* is identified by its position on the topic: event n is the n-th one sent.

\* Capacity of the broadcast channel (broadcast::channel(100)): the number of
\* most recent events the channel is asked to retain.
BroadcastCapacity == 100

\* ipc.rs:132-135: what handle_connection writes to a connection whose first
\* message is a command other than Subscribe.
request_reply_sync(cmd) == <<[conn |-> "requester", event |-> 0]>>

request_reply(cmd) == <<>>

\* broadcast::Sender::subscribe (ipc.rs:112): the new receiver starts at the
\* tail of the topic.
subscribe_position_oldest(tail) == 0

subscribe_position(tail) == tail

\* The position of the oldest event the channel still retains.
oldest_retained(tail) == IF tail > BroadcastCapacity THEN tail - BroadcastCapacity ELSE 0

\* rx.recv() (ipc.rs:120) for a receiver that has consumed the events up to
\* position next.
recv_result(next, tail) ==
    IF next = tail THEN "Pending"
    ELSE IF next < oldest_retained(tail) THEN "Lagged"
    ELSE "Ok"

\* ipc.rs:128: Err(RecvError::Lagged(_)) => continue.
after_lagged_break == "closed"

after_lagged == "open"

\* ipc.rs:122-125: a failed write_message ends the subscriber's loop.
WriteOutcomes == {"ok", "err"}

InitBus == StoreInit /\ DaemonIdle /\ BusIdle /\ OtherIdle

\* ipc.rs:110-117: a connection sends Subscribe as its first message.
BusSubscribe ==
    /\ loop_state = "running"
    /\ subscriber.state = "closed"
    /\ published <= MaxSubscribeAt
    /\ subscriber' = [state |-> "open",
                      subscribed_at |-> published,
                      next |-> subscribe_position(published),
                      received |-> 0,
                      last |-> 0,
                      lagged |-> FALSE]
    /\ wrote' = <<>>
    /\ UNCHANGED <<storeVars, daemonVars, published>>

\* ipc.rs:132-135: a connection sends another command as its first message;
\* the command is forwarded and the connection handling ends.
BusRequest ==
    \E cmd \in ForwardedCommands :
        /\ loop_state = "running"
        /\ Len(command_rx) < ChannelCapacity
        /\ Len(command_rx) < MaxQueued
        /\ published + Len(command_rx) < MaxPublished
        /\ command_rx' = mpsc_send(command_rx, cmd)
        /\ wrote' = request_reply(cmd)
        /\ UNCHANGED <<storeVars, hook_rx, event_tx, slack_service, dm_channel_id,
                       slack_ts, slack_calls, loop_state, signals, accepted,
                       published, subscriber>>

\* daemon.rs:293-310 with the topic: what the iteration sends is appended to
\* the topic.
BusLoopCommand ==
    /\ LoopCommand
    /\ published' = published + Len(event_tx')
    /\ wrote' = <<>>
    /\ UNCHANGED subscriber

\* ipc.rs:119-130: one turn of the subscriber's loop.
SubscriberRecv ==
    /\ subscriber.state = "open"
    /\ \E r \in {recv_result(subscriber.next, published)} :
        \/ /\ r = "Lagged"
           /\ subscriber' = [subscriber EXCEPT !.next = oldest_retained(published),
                                               !.lagged = TRUE,
                                               !.state = after_lagged]
           /\ wrote' = <<>>
        \/ /\ r = "Ok"
           /\ \E outcome \in WriteOutcomes :
                IF outcome = "ok"
                THEN /\ subscriber' = [subscriber EXCEPT !.next = @ + 1,
                                                         !.received = @ + 1,
                                                         !.last = subscriber.next + 1]
                     /\ wrote' = <<[conn |-> "subscriber",
                                    event |-> subscriber.next + 1]>>
                ELSE /\ subscriber' = [state |-> "closed"]
                     /\ wrote' = <<>>
    /\ UNCHANGED <<storeVars, daemonVars, published>>

NextBus ==
    \/ BusSubscribe /\ UNCHANGED otherVars
    \/ BusRequest /\ UNCHANGED otherVars
    \/ BusLoopCommand /\ UNCHANGED otherVars
    \/ SubscriberRecv /\ UNCHANGED otherVars

SpecBus == InitBus /\ [][NextBus]_vars


\* ------------------------------------------------------------ wire codec
\* SpecCodec follows one message from the value a client writes to the value
\* the connection task parses. A text is a sequence of characters, each a
\* one-character string; "U+00E9" stands for the one character e-acute.
Quote == "\""

Backslash == "\\"

Newline == "\n"

EAcute == "U+00E9"

\* The characters of the variant and field names of HookEvent and
\* DaemonCommand.
KeyChars ==
    [
     SessionStart |-> <<"S", "e", "s", "s", "i", "o", "n", "S", "t", "a", "r", "t">>,
     SessionEnd |-> <<"S", "e", "s", "s", "i", "o", "n", "E", "n", "d">>,
     Notification |-> <<"N", "o", "t", "i", "f", "i", "c", "a", "t", "i", "o", "n">>,
     Stop |-> <<"S", "t", "o", "p">>,
     session_id |-> <<"s", "e", "s", "s", "i", "o", "n", "_", "i", "d">>,
     transcript_path |-> <<"t", "r", "a", "n", "s", "c", "r", "i", "p", "t", "_", "p", "a", "t", "h">>,
     cwd |-> <<"c", "w", "d">>,
     message |-> <<"m", "e", "s", "s", "a", "g", "e">>,
     notification_type |-> <<"n", "o", "t", "i", "f", "i", "c", "a", "t", "i", "o", "n", "_", "t", "y", "p", "e">>,
     Subscribe |-> <<"S", "u", "b", "s", "c", "r", "i", "b", "e">>,
     Unsubscribe |-> <<"U", "n", "s", "u", "b", "s", "c", "r", "i", "b", "e">>,
     GetSessions |-> <<"G", "e", "t", "S", "e", "s", "s", "i", "o", "n", "s">>,
     GetConfig |-> <<"G", "e", "t", "C", "o", "n", "f", "i", "g">>,
     Ping |-> <<"P", "i", "n", "g">>
    ]


\* Strings carried by the messages that go through the codec.
CodecIds == {<<"a", "b", "c">>, <<"z">>}

CodecPaths == {<<"/", "x">>, <<>>}

CodecMessages == {<<"o", "k">>, <<Quote, "n", Backslash>>, <<EAcute, Newline>>, <<>>}

CodecTypes == {None, Some(<<"i", "d", "l", "e">>)}

\* HookEvent values with their strings spelled out.
CodecHookEvents ==
    [type : {"SessionStart"}, session_id : CodecIds,
     transcript_path : {None, Some(<<"/", "t">>)}, cwd : CodecPaths]
    \cup [type : {"SessionEnd"}, session_id : CodecIds]
    \cup [type : {"Notification"}, session_id : CodecIds, message : CodecMessages,
          notification_type : CodecTypes]
    \cup [type : {"Stop"}, session_id : CodecIds]

\* DaemonCommand values.
CodecCommands == [type : DaemonCommands]

\* A value together with the type it is written and parsed as.
CodecValues ==
    [as : {"HookEvent"}, value : CodecHookEvents]
    \cup [as : {"DaemonCommand"}, value : CodecCommands]

\* serde_json::to_string: string escaping.
escape_char(c) ==
    CASE c = Quote -> <<Backslash, Quote>>
      [] c = Backslash -> <<Backslash, Backslash>>
      [] c = Newline -> <<Backslash, "n">>
      [] OTHER -> <<c>>

RECURSIVE escape(_)
escape(s) == IF s = <<>> THEN <<>> ELSE escape_char(Head(s)) \o escape(Tail(s))

json_string(s) == <<Quote>> \o escape(s) \o <<Quote>>

json_null == <<"n", "u", "l", "l">>

\* Option<String>: None is null.
json_option(o) == IF o = None THEN json_null ELSE json_string(Unwrap(o))

json_member(key, value_text) == json_string(KeyChars[key]) \o <<":">> \o value_text

RECURSIVE join(_)
join(texts) ==
    IF texts = <<>> THEN <<>>
    ELSE IF Len(texts) = 1 THEN texts[1]
    ELSE texts[1] \o <<",">> \o join(Tail(texts))

json_object(members) == <<"{">> \o join(members) \o <<"}">>

\* serde_json::to_string of a HookEvent: an externally tagged struct variant.
to_string_HookEvent(e) ==
    LET fields ==
          CASE e.type = "SessionStart" ->
                 <<json_member("session_id", json_string(e.session_id)),
                   json_member("transcript_path", json_option(e.transcript_path)),
                   json_member("cwd", json_string(e.cwd))>>
            [] e.type = "Notification" ->
                 <<json_member("session_id", json_string(e.session_id)),
                   json_member("message", json_string(e.message)),
                   json_member("notification_type", json_option(e.notification_type))>>
            [] OTHER ->
                 <<json_member("session_id", json_string(e.session_id))>>
    IN json_object(<<json_member(e.type, json_object(fields))>>)

\* serde_json::to_string of a DaemonCommand: a unit variant is its name.
to_string_DaemonCommand(c) == json_string(KeyChars[c.type])

to_string(v) ==
    IF v.as = "HookEvent" THEN to_string_HookEvent(v.value)
    ELSE to_string_DaemonCommand(v.value)


\* serde_json::from_str: the JSON reader. A result is [ok |-> FALSE] or the
\* value read and the position after it; a value is <<"null", <<>>>>,
\* <<"string", text>> or <<"object", members>>, members being <<key, value>>
\* pairs in the order read.
ParseError == [ok |-> FALSE]

RECURSIVE scan_string(_, _, _)
scan_string(t, i, acc) ==
    IF i > Len(t) THEN ParseError
    ELSE IF t[i] = Quote THEN [ok |-> TRUE, value |-> <<"string", acc>>, next |-> i + 1]
    ELSE IF t[i] = Backslash THEN
        IF i + 1 > Len(t) THEN ParseError
        ELSE IF t[i + 1] \in {Quote, Backslash} THEN scan_string(t, i + 2, Append(acc, t[i + 1]))
        ELSE IF t[i + 1] = "n" THEN scan_string(t, i + 2, Append(acc, Newline))
        ELSE ParseError
    ELSE IF t[i] = Newline THEN ParseError
    ELSE scan_string(t, i + 1, Append(acc, t[i]))

RECURSIVE parse_value(_, _)
RECURSIVE parse_members(_, _, _)
parse_value(t, i) ==
    IF i > Len(t) THEN ParseError
    ELSE IF t[i] = Quote THEN scan_string(t, i + 1, <<>>)
    ELSE IF t[i] = "n" THEN
        IF i + 3 <= Len(t) /\ SubSeq(t, i, i + 3) = json_null
        THEN [ok |-> TRUE, value |-> <<"null", <<>>>>, next |-> i + 4]
        ELSE ParseError
    ELSE IF t[i] = "{" THEN
        IF i + 1 <= Len(t) /\ t[i + 1] = "}"
        THEN [ok |-> TRUE, value |-> <<"object", <<>>>>, next |-> i + 2]
        ELSE parse_members(t, i + 1, <<>>)
    ELSE ParseError

parse_members(t, i, acc) ==
    LET k == parse_value(t, i) IN
    IF ~k.ok THEN ParseError
    ELSE IF k.value[1] # "string" THEN ParseError
    ELSE IF k.next > Len(t) THEN ParseError
    ELSE IF t[k.next] # ":" THEN ParseError
    ELSE LET v == parse_value(t, k.next + 1) IN
         IF ~v.ok THEN ParseError
         ELSE IF v.next > Len(t) THEN ParseError
         ELSE IF t[v.next] = ","
              THEN parse_members(t, v.next + 1, Append(acc, <<k.value[2], v.value>>))
         ELSE IF t[v.next] = "}"
              THEN [ok |-> TRUE,
                    value |-> <<"object", Append(acc, <<k.value[2], v.value>>)>>,
                    next |-> v.next + 1]
         ELSE ParseError

\* The whole text is one JSON value.
parse_document(t) ==
    LET r == parse_value(t, 1) IN
    IF r.ok THEN (IF r.next = Len(t) + 1 THEN Some(r.value) ELSE None) ELSE None

\* Members of an object with the given field name.
members_named(ms, key) == {i \in 1..Len(ms) : ms[i][1] = KeyChars[key]}

field(ms, key) == ms[CHOOSE i \in members_named(ms, key) : TRUE][2]

\* A String field: present once, a JSON string.
string_field_ok(ms, key) ==
    /\ Cardinality(members_named(ms, key)) = 1
    /\ field(ms, key)[1] = "string"

\* An Option<String> field: absent, or present once as null or a JSON string.
option_field_ok(ms, key) ==
    \/ members_named(ms, key) = {}
    \/ /\ Cardinality(members_named(ms, key)) = 1
       /\ field(ms, key)[1] \in {"null", "string"}

option_field(ms, key) ==
    IF members_named(ms, key) = {} THEN None
    ELSE IF field(ms, key)[1] = "null" THEN None
    ELSE Some(field(ms, key)[2])

\* serde_json::from_str::<HookEvent>
hook_event_of(tag, ms) ==
    IF tag = KeyChars["SessionStart"] THEN
        IF string_field_ok(ms, "session_id") /\ option_field_ok(ms, "transcript_path")
           /\ string_field_ok(ms, "cwd")
        THEN Some([type |-> "SessionStart",
                   session_id |-> field(ms, "session_id")[2],
                   transcript_path |-> option_field(ms, "transcript_path"),
                   cwd |-> field(ms, "cwd")[2]])
        ELSE None
    ELSE IF tag = KeyChars["Notification"] THEN
        IF string_field_ok(ms, "session_id") /\ string_field_ok(ms, "message")
           /\ option_field_ok(ms, "notification_type")
        THEN Some([type |-> "Notification",
                   session_id |-> field(ms, "session_id")[2],
                   message |-> field(ms, "message")[2],
                   notification_type |-> option_field(ms, "notification_type")])
        ELSE None
    ELSE IF tag \in {KeyChars["SessionEnd"], KeyChars["Stop"]} THEN
        IF string_field_ok(ms, "session_id")
        THEN Some([type |-> IF tag = KeyChars["Stop"] THEN "Stop" ELSE "SessionEnd",
                   session_id |-> field(ms, "session_id")[2]])
        ELSE None
    ELSE None

from_str_HookEvent(t) ==
    LET d == parse_document(t) IN
    IF d = None THEN None
    ELSE IF d[1][1] # "object" THEN None
    ELSE IF Len(d[1][2]) # 1 THEN None
    ELSE IF d[1][2][1][2][1] # "object" THEN None
    ELSE hook_event_of(d[1][2][1][1], d[1][2][1][2][2])

\* serde_json::from_str::<DaemonCommand>: a unit variant is written as a JSON
\* string and nothing else is accepted.
from_str_DaemonCommand_any(t) ==
    LET d == parse_document(t) IN
    IF d = None THEN None ELSE Some([type |-> "Ping"])

from_str_DaemonCommand(t) ==
    LET d == parse_document(t) IN
    IF d = None THEN None
    ELSE IF d[1][1] # "string" THEN None
    ELSE IF \E c \in DaemonCommands : KeyChars[c] = d[1][2]
         THEN Some([type |-> CHOOSE c \in DaemonCommands : KeyChars[c] = d[1][2]])
         ELSE None

\* ipc.rs:98-106: the text is tried as a HookEvent first, then as a
\* DaemonCommand.
parse_message(msg) ==
    IF from_str_HookEvent(msg) # None
    THEN [as |-> "HookEvent", value |-> Unwrap(from_str_HookEvent(msg))]
    ELSE IF from_str_DaemonCommand(msg) # None
    THEN [as |-> "DaemonCommand", value |-> Unwrap(from_str_DaemonCommand(msg))]
    ELSE [as |-> "unparsed"]


\* str::as_bytes: the UTF-8 bytes of a text. An ASCII character is one byte,
\* written as the character itself; e-acute is the two bytes C3 A9.
utf8_char(c) == IF c = EAcute THEN <<"C3", "A9">> ELSE <<c>>

RECURSIVE as_bytes(_)
as_bytes(t) == IF t = <<>> THEN <<>> ELSE utf8_char(Head(t)) \o as_bytes(Tail(t))

\* String::from_utf8 (ipc.rs:154): None when the bytes are not valid UTF-8,
\* that is when a C3 is not followed by A9 or an A9 does not follow a C3.
valid_utf8(b) ==
    \A i \in 1..Len(b) :
        /\ b[i] = "C3" => (i < Len(b) /\ b[i + 1] = "A9")
        /\ b[i] = "A9" => (i > 1 /\ b[i - 1] = "C3")

is_first_byte(c) == c # "A9"

from_utf8(b) ==
    IF valid_utf8(b)
    THEN Some(SelectSeq([i \in 1..Len(b) |-> IF b[i] = "C3" THEN EAcute ELSE b[i]],
                        is_first_byte))
    ELSE None

\* `as u32`: the value modulo 2^32.
as_u32(n) == (n % 65536) + 65536 * ((n \div 65536) % 65536)

\* u32::to_be_bytes / u32::from_be_bytes
to_le_bytes(n) == <<n % 256, (n \div 256) % 256, (n \div 65536) % 256, (n \div 16777216) % 256>>

to_be_bytes(n) == <<(n \div 16777216) % 256, (n \div 65536) % 256, (n \div 256) % 256, n % 256>>

from_be_bytes(b) == b[1] * 16777216 + b[2] * 65536 + b[3] * 256 + b[4]

\* The length prefix written by write_message (ipc.rs:159-162) and by the
\* hook's send_message (main.rs:54-57): the byte length of the JSON text.
write_message_prefix(json) == to_be_bytes(as_u32(Len(as_bytes(json))))

send_message_prefix(json) == to_be_bytes(as_u32(Len(as_bytes(json))))

\* A client serializes a value and writes the length prefix: the hook binary
\* for a HookEvent, IpcClient for a DaemonCommand.
CodecWritePrefix ==
    /\ codec.writer = "idle"
    /\ codec.reader = "idle"
    /\ \E v \in CodecValues :
        \E json \in {to_string(v)} :
            codec' = [codec EXCEPT !.writer = "prefix",
                                   !.sent = Some(v),
                                   !.json = Some(json),
                                   !.stream = IF v.as = "HookEvent"
                                              THEN send_message_prefix(json)
                                              ELSE write_message_prefix(json)]

\* stream.write_all(json.as_bytes()) and flush.
CodecWriteBody ==
    /\ codec.writer = "prefix"
    /\ codec' = [codec EXCEPT !.writer = "done",
                              !.stream = @ \o as_bytes(Unwrap(codec.json))]

\* read_message, ipc.rs:146-148: read_exact of the four length bytes.
CodecReadPrefix ==
    /\ codec.reader = "idle"
    /\ Len(codec.stream) >= 4
    /\ codec' = [codec EXCEPT !.reader = "prefix",
                              !.len = Some(from_be_bytes(SubSeq(codec.stream, 1, 4))),
                              !.stream = SubSeq(codec.stream, 5, Len(codec.stream))]

\* read_message, ipc.rs:151-154: read_exact of the body and String::from_utf8.
\* read_exact fails when the writer has finished and fewer bytes are left.
CodecReadBody ==
    /\ codec.reader = "prefix"
    /\ \E len \in {Unwrap(codec.len)} :
        IF Len(codec.stream) >= len
        THEN \E msg \in {from_utf8(SubSeq(codec.stream, 1, len))} :
                codec' = [codec EXCEPT !.reader = IF msg = None THEN "failed" ELSE "body",
                                       !.msg = msg,
                                       !.stream = SubSeq(codec.stream, len + 1,
                                                         Len(codec.stream))]
        ELSE /\ codec.writer = "done"
             /\ codec' = [codec EXCEPT !.reader = "failed"]

\* handle_connection, ipc.rs:98-106: the text is parsed.
CodecParse ==
    /\ codec.reader = "body"
    /\ codec' = [codec EXCEPT !.reader = "parsed",
                              !.parsed = Some(parse_message(Unwrap(codec.msg)))]

\* The connection ends; the next one starts from scratch.
CodecClose ==
    /\ codec.writer = "done"
    /\ codec.reader \in {"parsed", "failed"}
    /\ codec' = [writer |-> "idle", reader |-> "idle", sent |-> None, json |-> None,
                 stream |-> <<>>, len |-> None, msg |-> None, parsed |-> None]

InitCodec == StoreInit /\ DaemonIdle /\ BusIdle /\ CodecIdle /\ LifeIdle /\ ExtraIdle

NextCodec ==
    \/ CodecWritePrefix /\ UNCHANGED <<storeVars, daemonVars, busVars, lifeVars, extraVars>>
    \/ CodecWriteBody /\ UNCHANGED <<storeVars, daemonVars, busVars, lifeVars, extraVars>>
    \/ CodecReadPrefix /\ UNCHANGED <<storeVars, daemonVars, busVars, lifeVars, extraVars>>
    \/ CodecReadBody /\ UNCHANGED <<storeVars, daemonVars, busVars, lifeVars, extraVars>>
    \/ CodecParse /\ UNCHANGED <<storeVars, daemonVars, busVars, lifeVars, extraVars>>
    \/ CodecClose /\ UNCHANGED <<storeVars, daemonVars, busVars, lifeVars, extraVars>>

SpecCodec == InitCodec /\ [][NextCodec]_vars


\* ------------------------------------------------------ process lifecycle
\* SpecLife follows start invocations against one PID file and one socket
\* path: the liveness probe, daemonization, the listener task and the exit of
\* the daemon process. The PID file holds <<"pid", n>> or, when its content
\* is not a decimal number, <<"garbage", 0>>.

\* Daemon::read_pid_file
read_pid_file(pf) ==
    IF pf = None THEN [ok |-> TRUE, pid |-> None]
    ELSE IF pf[1][1] = "pid" THEN [ok |-> TRUE, pid |-> Some(pf[1][2])]
    ELSE [ok |-> FALSE]

\* Daemon::is_process_running: kill(pid, 0) succeeds.
is_process_running(P, pid) ==
    \/ pid = ForeignPid
    \/ pid \in Procs /\ P[pid].pc = "running"

\* IpcClient::is_running: connect() succeeds, that is the socket file exists
\* and the process that bound it is alive and listening.
IpcClient_is_running_always(P, sf) == TRUE

IpcClient_is_running(P, sf) ==
    /\ sf # None
    /\ sf[1] \in Procs
    /\ P[sf[1]].pc = "running"
    /\ P[sf[1]].ipc = "listening"

\* Daemon::is_running_sync
is_running_sync(pf, P, sf) ==
    IF read_pid_file(pf).ok
    THEN IF read_pid_file(pf).pid # None
         THEN IF is_process_running(P, read_pid_file(pf).pid[1])
              THEN IpcClient_is_running(P, sf)
              ELSE FALSE
         ELSE FALSE
    ELSE FALSE

\* Daemonize::pid_file (daemon.rs:56-63): start() takes an exclusive lock on
\* the PID file and fails when another process holds it.
pid_lock_free_always(holder) == TRUE

pid_lock_free(holder) == holder = 0

\* daemon.rs:236-240: an Err from IpcServer::run is logged by the task that
\* ran it; the event loop is entered whatever the task does.
loop_after_ipc_error == "running"

\* Results of IpcServer::run up to the bind (ipc.rs:38-47).
IpcOutcomes == {"ok", "dir_err", "remove_err", "bind_err"}

\* What an earlier run may have left behind.
InitLife ==
    /\ StoreInit /\ DaemonIdle /\ BusIdle /\ CodecIdle /\ ExtraIdle
    /\ pid_file \in {None, Some(<<"garbage", 0>>), Some(<<"pid", StalePid>>),
                     Some(<<"pid", ForeignPid>>)}
    /\ pid_lock = 0
    /\ socket_file \in {None, Some(StalePid)}
    /\ procs = [p \in Procs |-> [pc |-> "idle", ipc |-> "none"]]
    /\ probe = None

\* Daemon::run_foreground up to the liveness check (daemon.rs:35-49), run by
\* a `daemon start` from the command line or by the child start_background
\* spawned.
StartForeground(p) ==
    /\ procs[p].pc \in {"idle", "spawned"}
    /\ procs' = [procs EXCEPT ![p].pc =
                    IF is_running_sync(pid_file, procs, socket_file)
                    THEN "refused" ELSE "checked"]
    /\ UNCHANGED <<pid_file, pid_lock, socket_file, probe>>

\* Daemon::start_background (daemon.rs:74-107).
StartBackground(p) ==
    /\ procs[p].pc = "idle"
    /\ procs' = [procs EXCEPT ![p].pc =
                    IF is_running_sync(pid_file, procs, socket_file)
                    THEN "refused" ELSE "spawned"]
    /\ UNCHANGED <<pid_file, pid_lock, socket_file, probe>>

\* daemon.rs:52-70 and 200-250: daemonize, then Daemon::run spawns the
\* listener task and enters the event loop.
Daemonize(p) ==
    /\ procs[p].pc = "checked"
    /\ IF pid_lock_free(pid_lock)
       THEN /\ pid_lock' = p
            /\ pid_file' = Some(<<"pid", p>>)
            /\ procs' = [procs EXCEPT ![p] = [pc |-> "running", ipc |-> "spawned"]]
       ELSE /\ procs' = [procs EXCEPT ![p].pc = "failed"]
            /\ UNCHANGED <<pid_file, pid_lock>>
    /\ UNCHANGED <<socket_file, probe>>

\* IpcServer::run up to the bind (ipc.rs:36-49), in the task spawned at
\* daemon.rs:236.
IpcRun(p) ==
    /\ procs[p].pc = "running"
    /\ procs[p].ipc = "spawned"
    /\ \E outcome \in IpcOutcomes :
        /\ outcome = "remove_err" => socket_file # None
        /\ socket_file' = CASE outcome = "ok" -> Some(p)
                            [] outcome = "bind_err" -> None
                            [] OTHER -> socket_file
        /\ procs' = [procs EXCEPT ![p] =
                        IF outcome = "ok"
                        THEN [pc |-> "running", ipc |-> "listening"]
                        ELSE [pc |-> loop_after_ipc_error, ipc |-> "failed"]]
    /\ UNCHANGED <<pid_file, pid_lock, probe>>

\* The daemon process ends (daemon.rs:312-322, or it is killed): its lock
\* and its listener go with it, the files stay.
Exit(p) ==
    /\ procs[p].pc = "running"
    /\ procs' = [procs EXCEPT ![p].pc = "exited"]
    /\ pid_lock' = IF pid_lock = p THEN 0 ELSE pid_lock
    /\ UNCHANGED <<pid_file, socket_file, probe>>

\* Daemon::is_running, called for `daemon status` (cli.rs:137).
Probe ==
    /\ probe' = Some([result |-> is_running_sync(pid_file, procs, socket_file),
                      turn |-> IF probe = None THEN 0 ELSE 1 - probe[1].turn])
    /\ UNCHANGED <<pid_file, pid_lock, socket_file, procs>>

NextLife ==
    \/ \E p \in Procs : StartForeground(p) /\ UNCHANGED <<storeVars, daemonVars, busVars, codecVars, extraVars>>
    \/ \E p \in Procs : StartBackground(p) /\ UNCHANGED <<storeVars, daemonVars, busVars, codecVars, extraVars>>
    \/ \E p \in Procs : Daemonize(p) /\ UNCHANGED <<storeVars, daemonVars, busVars, codecVars, extraVars>>
    \/ \E p \in Procs : IpcRun(p) /\ UNCHANGED <<storeVars, daemonVars, busVars, codecVars, extraVars>>
    \/ \E p \in Procs : Exit(p) /\ UNCHANGED <<storeVars, daemonVars, busVars, codecVars, extraVars>>
    \/ Probe /\ UNCHANGED <<storeVars, daemonVars, busVars, codecVars, extraVars>>

SpecLife == InitLife /\ [][NextLife]_vars


\* ------------------------------------------------------ the stop operation
\* SpecStop adds invocations of Daemon::stop to the starts of SpecLife.

\* kill(pid, SIGTERM) (daemon.rs:119): the foreign process belongs to another
\* user, so signalling it fails with EPERM; a dead process gives ESRCH.
kill_result(P, pid) ==
    IF pid = ForeignPid THEN "eperm"
    ELSE IF is_process_running(P, pid) THEN "ok"
    ELSE "esrch"

\* How Daemon::stop gets on before it waits (daemon.rs:114-151): `?` on
\* read_pid_file, the match on the PID and the match on the result of kill.
stop_outcome(pf, P) ==
    IF ~read_pid_file(pf).ok THEN "unreadable"
    ELSE IF read_pid_file(pf).pid = None THEN "no_pid_file"
    ELSE kill_result(P, read_pid_file(pf).pid[1])

\* The files each way out of Daemon::stop removes (daemon.rs:110-157):
\* lines 127-130 and 138-139 for a process that was signalled, 143 and 154
\* for a stale PID, 154 alone without a PID file, none where `?` or bail!
\* returns the error.
removed_by_stop(outcome) ==
    CASE outcome \in {"graceful", "force_killed", "esrch"} -> {"pid_file", "socket_file"}
      [] outcome = "no_pid_file" -> {"socket_file"}
      [] outcome \in {"unreadable", "eperm"} -> {}

\* Daemon::stop returns with the given outcome. A PID file created after the
\* removal is a new file, which nobody has locked.
StopReturns(outcome) ==
    /\ stopper' = [pc |-> "done", pid |-> 0, outcome |-> outcome,
                   turn |-> 1 - stopper.turn, polls |-> 0]
    /\ pid_file' = IF "pid_file" \in removed_by_stop(outcome) THEN None ELSE pid_file
    /\ pid_lock' = IF "pid_file" \in removed_by_stop(outcome) THEN 0 ELSE pid_lock
    /\ socket_file' = IF "socket_file" \in removed_by_stop(outcome)
                      THEN None ELSE socket_file

\* daemon.rs:110-120 and 141-154: stop reads the PID file and sends SIGTERM.
StopBegin ==
    /\ stopper.pc \in {"idle", "done"}
    /\ IF stop_outcome(pid_file, procs) = "ok"
       THEN /\ stopper' = [pc |-> "waiting", pid |-> read_pid_file(pid_file).pid[1],
                           outcome |-> "none", turn |-> stopper.turn, polls |-> 0]
            /\ UNCHANGED <<pid_file, pid_lock, socket_file>>
       ELSE StopReturns(stop_outcome(pid_file, procs))
    /\ UNCHANGED <<procs, probe>>

\* daemon.rs:122: `for _ in 0..50`, with a sleep of 100 ms after each poll
\* that finds the process alive.
StopPolls == 50

polls_exhausted_at_once(n) == TRUE

polls_exhausted(n) == n = StopPolls

\* daemon.rs:122-131: a poll finds the signalled process gone.
StopExited ==
    /\ stopper.pc = "waiting"
    /\ ~polls_exhausted(stopper.polls)
    /\ ~is_process_running(procs, stopper.pid)
    /\ StopReturns("graceful")
    /\ UNCHANGED <<procs, probe>>

\* daemon.rs:124 and 132: a poll finds it alive and stop sleeps 100 ms.
StopPollAlive ==
    /\ stopper.pc = "waiting"
    /\ ~polls_exhausted(stopper.polls)
    /\ is_process_running(procs, stopper.pid)
    /\ stopper' = [stopper EXCEPT !.polls = @ + 1]
    /\ UNCHANGED <<pid_file, pid_lock, socket_file, procs, probe>>

\* daemon.rs:135-139: the polls are used up; SIGKILL is sent, its result
\* ignored, and both files are removed.
StopTimeout ==
    /\ stopper.pc = "waiting"
    /\ polls_exhausted(stopper.polls)
    /\ StopReturns("force_killed")
    /\ procs' = IF is_process_running(procs, stopper.pid)
                THEN [procs EXCEPT ![stopper.pid].pc = "exited"]
                ELSE procs
    /\ UNCHANGED probe

NextStop ==
    \/ \E p \in Procs : StartForeground(p) /\ UNCHANGED <<storeVars, daemonVars, busVars, codecVars, extraVars>>
    \/ \E p \in Procs : StartBackground(p) /\ UNCHANGED <<storeVars, daemonVars, busVars, codecVars, extraVars>>
    \/ \E p \in Procs : Daemonize(p) /\ UNCHANGED <<storeVars, daemonVars, busVars, codecVars, extraVars>>
    \/ \E p \in Procs : IpcRun(p) /\ UNCHANGED <<storeVars, daemonVars, busVars, codecVars, extraVars>>
    \/ \E p \in Procs : Exit(p) /\ UNCHANGED <<storeVars, daemonVars, busVars, codecVars, extraVars>>
    \/ StopBegin /\ UNCHANGED <<storeVars, daemonVars, busVars, codecVars, hookVars, iterVars, connVars, taskVars>>
    \/ StopExited /\ UNCHANGED <<storeVars, daemonVars, busVars, codecVars, hookVars, iterVars, connVars, taskVars>>
    \/ StopPollAlive /\ UNCHANGED <<storeVars, daemonVars, busVars, codecVars, hookVars, iterVars, connVars, taskVars>>
    \/ StopTimeout /\ UNCHANGED <<storeVars, daemonVars, busVars, codecVars, hookVars, iterVars, connVars, taskVars>>

SpecStop == InitLife /\ [][NextStop]_vars


\* ---------------------------------------------------------- the hook binary
\* SpecHook follows one run of slack-code-hook from the input it parsed from
\* stdin to its exit: the conversion, the connection and the three calls of
\* send_message.

\* Values of hook_event_name: the four the hook knows, one it does not and
\* one that differs from a known one in case only.
HookEventNames == {"SessionStart", "SessionEnd", "Notification", "Stop",
                   "PreToolUse", "stop"}

\* ClaudeHookInput values (the fields to_hook_event reads).
ClaudeHookInputs ==
    [session_id : CodecIds,
     transcript_path : {None, Some(<<"/", "t">>)},
     cwd : {None, Some(<<"/", "x">>)},
     hook_event_name : HookEventNames,
     message : {None, Some(<<"o", "k">>)},
     notification_type : CodecTypes]

\* Option<String>::unwrap_or_default
unwrap_or_default(o) == IF o = None THEN <<>> ELSE Unwrap(o)

\* ClaudeHookInput::to_hook_event
to_hook_event_lenient(input) ==
    Some([type |-> "Stop", session_id |-> input.session_id])

to_hook_event(input) ==
    CASE input.hook_event_name = "SessionStart" ->
           Some([type |-> "SessionStart",
                 session_id |-> input.session_id,
                 transcript_path |-> input.transcript_path,
                 cwd |-> unwrap_or_default(input.cwd)])
      [] input.hook_event_name = "SessionEnd" ->
           Some([type |-> "SessionEnd", session_id |-> input.session_id])
      [] input.hook_event_name = "Notification" ->
           Some([type |-> "Notification",
                 session_id |-> input.session_id,
                 message |-> unwrap_or_default(input.message),
                 notification_type |-> input.notification_type])
      [] input.hook_event_name = "Stop" ->
           Some([type |-> "Stop", session_id |-> input.session_id])
      [] OTHER -> None

\* Results of UnixStream::connect and of a write_all call.
IoOutcomes == {"ok", "err"}

\* The hook binary has parsed its input (main.rs:19-23).
InitHook ==
    /\ StoreInit /\ DaemonIdle /\ BusIdle /\ CodecIdle /\ LifeIdle /\ StopIdle /\ IterIdle
    /\ ConnIdle /\ TaskIdle
    /\ \E input \in ClaudeHookInputs :
        hook_client = [pc |-> "parsed", input |-> input, event |-> None,
                       connects |-> 0, opened |-> 0, written |-> <<>>]

\* main.rs:26-29: the conversion; an unknown name ends the run.
HookConvert ==
    /\ hook_client.pc = "parsed"
    /\ \E event \in {to_hook_event(hook_client.input)} :
        hook_client' = [hook_client EXCEPT !.event = event,
                                           !.pc = IF event = None THEN "exited"
                                                  ELSE "converted"]

\* main.rs:41-46: send_to_daemon connects; a failure is reported and the run
\* ends (main.rs:32-35).
HookConnect ==
    /\ hook_client.pc = "converted"
    /\ \E outcome \in IoOutcomes :
        hook_client' = [hook_client EXCEPT
                            !.connects = @ + 1,
                            !.opened = IF outcome = "ok" THEN @ + 1 ELSE @,
                            !.pc = IF outcome = "ok" THEN "connected" ELSE "exited"]

\* main.rs:54-57: send_message serializes and writes the length prefix; a
\* failing write_all has written fewer bytes than it was given.
HookWritePrefix ==
    /\ hook_client.pc = "connected"
    /\ \E prefix \in {send_message_prefix(to_string_HookEvent(Unwrap(hook_client.event)))} :
        \E n \in 0..Len(prefix) :
            hook_client' = [hook_client EXCEPT
                                !.written = SubSeq(prefix, 1, n),
                                !.pc = IF n = Len(prefix) THEN "prefix" ELSE "exited"]

\* main.rs:58: write_all of the body.
HookWriteBody ==
    /\ hook_client.pc = "prefix"
    /\ \E body \in {as_bytes(to_string_HookEvent(Unwrap(hook_client.event)))} :
        \E n \in 0..Len(body) :
            hook_client' = [hook_client EXCEPT
                                !.written = @ \o SubSeq(body, 1, n),
                                !.pc = IF n = Len(body) THEN "body" ELSE "exited"]

\* main.rs:59-61 and 50: flush, return, and the stream is dropped.
HookFlush ==
    /\ hook_client.pc = "body"
    /\ hook_client' = [hook_client EXCEPT !.pc = "exited"]

NextHook ==
    \/ HookConvert /\ UNCHANGED <<storeVars, daemonVars, busVars, codecVars, lifeVars, stopVars, iterVars, connVars, taskVars>>
    \/ HookConnect /\ UNCHANGED <<storeVars, daemonVars, busVars, codecVars, lifeVars, stopVars, iterVars, connVars, taskVars>>
    \/ HookWritePrefix /\ UNCHANGED <<storeVars, daemonVars, busVars, codecVars, lifeVars, stopVars, iterVars, connVars, taskVars>>
    \/ HookWriteBody /\ UNCHANGED <<storeVars, daemonVars, busVars, codecVars, lifeVars, stopVars, iterVars, connVars, taskVars>>
    \/ HookFlush /\ UNCHANGED <<storeVars, daemonVars, busVars, codecVars, lifeVars, stopVars, iterVars, connVars, taskVars>>

SpecHook == InitHook /\ [][NextHook]_vars


\* ------------------------------------------------- inside one iteration
\* SpecIter follows the event loop through the await points of an iteration
\* (the notifier call) while connection tasks go on filling the channels.

\* daemon.rs:252-253: the loop polls its sources at select! only; the body of
\* the branch it took runs to its end before the next select!.
select_ready_always(pc) == TRUE

select_ready(pc) == pc = "select"

\* daemon.rs:261-285: the notifier call the iteration makes for the record
\* the store returned.
notifier_call(session, status_changed, configured) ==
    IF thread_missing(session)
    THEN (IF configured THEN "post_session_start" ELSE "none")
    ELSE IF posts_update(status_changed) /\ configured THEN "post_thread_reply"
    ELSE "none"

\* daemon.rs:255-285: select! yields a hook event; the store is written and
\* the notifier call, if there is one, is started.
IterRecvHook ==
    /\ loop_state = "running"
    /\ select_ready(iteration.pc)
    /\ hook_rx # <<>>
    /\ hook_rx' = Tail(hook_rx)
    /\ Creates(sessions, claude_id_map, Head(hook_rx)) => next_uuid <= MaxUuid
    /\ next_uuid' = IF Creates(sessions, claude_id_map, Head(hook_rx))
                    THEN next_uuid + 1 ELSE next_uuid
    /\ last_call' = [op |-> "handle_hook_event", event |-> Head(hook_rx)]
    /\ \E r \in {handle_hook_event(sessions, claude_id_map, Head(hook_rx), next_uuid, now)} :
        /\ sessions' = r.sessions
        /\ claude_id_map' = r.claude_id_map
        /\ ret' = r.ret
        /\ IF r.ret = None
           THEN /\ iteration' = AtSelect
                /\ loop_state' = loop_state
           ELSE \E call \in {notifier_call(Unwrap(r.ret).session,
                                           Unwrap(r.ret).status_changed, slack_service)} :
                IF call = "post_thread_reply"
                   /\ format_status_message_panics(Unwrap(r.ret).session)
                THEN /\ iteration' = [AtSelect EXCEPT !.pc = "panicked"]
                     /\ loop_state' = "panicked"
                ELSE /\ iteration' = [pc |-> IF call = "none" THEN "broadcast"
                                             ELSE "await_notifier",
                                      call |-> call,
                                      session |-> Some(Unwrap(r.ret).session),
                                      status_changed |-> Unwrap(r.ret).status_changed]
                     /\ loop_state' = loop_state
    /\ event_tx' = <<>>
    /\ slack_calls' = <<>>
    /\ UNCHANGED <<now, command_rx, slack_service, dm_channel_id, slack_ts, signals,
                   accepted>>

\* daemon.rs:264-273 and 280-282: the notifier call returns.
IterNotifierReturns ==
    /\ loop_state = "running"
    /\ iteration.pc = "await_notifier"
    /\ \E outcome \in IF iteration.call = "post_session_start"
                      THEN StartOutcomes(dm_channel_id) ELSE ReplyOutcomes :
        /\ slack_calls' = <<[call |-> iteration.call,
                             session_id |-> Unwrap(iteration.session).id,
                             result |-> outcome]>>
        /\ loop_state' = after_notifier_result(outcome)
        /\ dm_channel_id' = IF iteration.call = "post_session_start"
                               /\ outcome # "open_failed"
                            THEN Some("D1") ELSE dm_channel_id
        /\ slack_ts' = IF outcome = "ok" THEN slack_ts + 1 ELSE slack_ts
        /\ IF iteration.call = "post_session_start" /\ outcome = "ok"
           THEN \E thread \in {[channel_id |-> "D1", parent_ts |-> slack_ts + 1]} :
                /\ sessions' = set_slack_thread(sessions, Unwrap(iteration.session).id,
                                                thread)
                /\ iteration' = [iteration EXCEPT
                                    !.pc = "broadcast",
                                    !.session = Some([Unwrap(iteration.session) EXCEPT
                                                         !.slack_thread = Some(thread)])]
           ELSE /\ sessions' = sessions
                /\ iteration' = [iteration EXCEPT !.pc = "broadcast"]
    /\ UNCHANGED <<claude_id_map, next_uuid, now, ret, last_call, hook_rx, command_rx,
                   event_tx, slack_service, signals, accepted>>

\* daemon.rs:287-289: the update is sent and the iteration ends.
IterBroadcast ==
    /\ loop_state = "running"
    /\ iteration.pc = "broadcast"
    /\ event_tx' = broadcast_update(Unwrap(iteration.session), iteration.status_changed)
    /\ iteration' = AtSelect
    /\ UNCHANGED <<storeVars, hook_rx, command_rx, slack_service, dm_channel_id,
                   slack_ts, slack_calls, loop_state, signals, accepted>>

\* daemon.rs:293-310: select! yields a command.
IterCommand == select_ready(iteration.pc) /\ LoopCommand /\ UNCHANGED iteration

\* daemon.rs:312-322: select! yields a signal.
IterSignal == select_ready(iteration.pc) /\ LoopSignal /\ UNCHANGED iteration

NextIter ==
    \/ TransportSendHook /\ UNCHANGED <<busVars, codecVars, lifeVars, stopVars, hookVars, iterVars, connVars, taskVars>>
    \/ TransportSendCommand /\ UNCHANGED <<busVars, codecVars, lifeVars, stopVars, hookVars, iterVars, connVars, taskVars>>
    \/ DeliverSignal /\ UNCHANGED <<busVars, codecVars, lifeVars, stopVars, hookVars, iterVars, connVars, taskVars>>
    \/ IterRecvHook /\ UNCHANGED <<busVars, codecVars, lifeVars, stopVars, hookVars, connVars, taskVars>>
    \/ IterNotifierReturns /\ UNCHANGED <<busVars, codecVars, lifeVars, stopVars, hookVars, connVars, taskVars>>
    \/ IterBroadcast /\ UNCHANGED <<busVars, codecVars, lifeVars, stopVars, hookVars, connVars, taskVars>>
    \/ IterCommand /\ UNCHANGED <<busVars, codecVars, lifeVars, stopVars, hookVars, connVars, taskVars>>
    \/ IterSignal /\ UNCHANGED <<busVars, codecVars, lifeVars, stopVars, hookVars, connVars, taskVars>>

SpecIter == Init /\ [][NextIter]_vars


\* ------------------------------------------------------- connection tasks
\* SpecConn follows the connections the listener accepts, each in a task of
\* its own, together with the event loop that empties the two channels. The
\* clients of a run flood one of the two channels (flood), with hook events
\* or with commands, so that it fills.

\* What the first message of a connection turns out to be (ipc.rs:96-137): a
\* Stop event for a session the store does not hold, one of three commands,
\* or nothing usable.
ConnMessages == {"hook", "Unsubscribe", "Ping", "Subscribe", "error"}

\* The hook event the flood carries.
FloodHookEvent == [type |-> "Stop", session_id |-> "abc"]

\* mpsc::channel(100) (daemon.rs:204-205): send completes while the channel
\* holds fewer than its capacity and waits otherwise.
mpsc_has_capacity_always(queue) == TRUE

mpsc_has_capacity(queue) == Len(queue) < ChannelCapacity

\* ipc.rs:52-75: the listener awaits nothing but accept(); each connection is
\* handed to tokio::spawn.
accept_ready_inline(C) == \A c \in DOMAIN C : C[c].pc = "free"

accept_ready(C) == TRUE

\* Messages waiting in a channel or in a task that is about to send them.
SendingTasks(msgs) == {c \in ConnIds : conns[c].pc = "sending" /\ conns[c].msg \in msgs}

QueuedCommands == Len(command_rx) + Cardinality(SendingTasks({"Unsubscribe", "Ping"}))

QueuedPings ==
    Cardinality({i \in 1..Len(command_rx) : command_rx[i] = "Ping"})
    + Cardinality(SendingTasks({"Ping"}))

\* The messages a client may send now: the flood without limit, a Ping
\* while the bounds allow, Subscribe and an unusable message always.
Admitted(m) ==
    CASE m = "hook" -> flood = "hook"
      [] m = "Unsubscribe" -> flood = "command"
      [] m = "Ping" -> QueuedCommands < MaxQueued /\ published + QueuedPings < MaxEvents
      [] OTHER -> TRUE

InitConn ==
    /\ StoreInit /\ DaemonIdle /\ BusIdle /\ CodecIdle /\ LifeIdle
    /\ StopIdle /\ HookIdle /\ IterIdle /\ TaskIdle
    /\ conns = [c \in ConnIds |-> FreeConn]
    /\ flood \in {"hook", "command"}

\* ipc.rs:53-75: accept() returns a connection and its task is spawned.
ConnAccept(c) ==
    /\ loop_state = "running"
    /\ conns[c].pc = "free"
    /\ accept_ready(conns)
    /\ conns' = [conns EXCEPT ![c].pc = "accepted"]
    /\ UNCHANGED <<storeVars, daemonVars, busVars, flood>>

\* ipc.rs:96-131: the task reads and parses the first message. An error ends
\* it (ipc.rs:70-74); Subscribe makes it a subscriber of the topic; anything
\* else is to be sent on a channel.
ConnRead(c) ==
    /\ conns[c].pc = "accepted"
    /\ \E m \in ConnMessages :
        /\ Admitted(m)
        /\ conns' = [conns EXCEPT ![c] =
                        CASE m = "error" -> FreeConn
                          [] m = "Subscribe" -> [pc |-> "subscribed", msg |-> "none",
                                                 next |-> subscribe_position(published)]
                          [] OTHER -> [pc |-> "sending", msg |-> m, next |-> 0]]
    /\ UNCHANGED <<storeVars, daemonVars, busVars, flood>>

\* ipc.rs:101 and 134: send(..).await completes and the task returns.
ConnSend(c) ==
    /\ conns[c].pc = "sending"
    /\ IF conns[c].msg = "hook"
       THEN /\ mpsc_has_capacity(hook_rx)
            /\ hook_rx' = mpsc_send(hook_rx, FloodHookEvent)
            /\ UNCHANGED command_rx
       ELSE /\ mpsc_has_capacity(command_rx)
            /\ command_rx' = mpsc_send(command_rx, conns[c].msg)
            /\ UNCHANGED hook_rx
    /\ conns' = [conns EXCEPT ![c] = FreeConn]
    /\ UNCHANGED <<storeVars, event_tx, slack_service, dm_channel_id, slack_ts,
                   slack_calls, loop_state, signals, accepted, busVars, flood>>

\* ipc.rs:119-130: one turn of a subscriber's loop.
ConnRecv(c) ==
    /\ conns[c].pc = "subscribed"
    /\ recv_result(conns[c].next, published) # "Pending"
    /\ \E outcome \in WriteOutcomes :
        conns' = [conns EXCEPT ![c] =
                    IF recv_result(conns[c].next, published) = "Lagged"
                    THEN [conns[c] EXCEPT !.next = oldest_retained(published)]
                    ELSE IF outcome = "ok"
                    THEN [conns[c] EXCEPT !.next = @ + 1]
                    ELSE FreeConn]
    /\ UNCHANGED <<storeVars, daemonVars, busVars, flood>>

\* daemon.rs:255-290 and 293-310 with the topic.
ConnLoopHook ==
    /\ LoopHook
    /\ published' = published + Len(event_tx')
    /\ UNCHANGED <<subscriber, wrote, connVars>>

ConnLoopCommand ==
    /\ LoopCommand
    /\ published' = published + Len(event_tx')
    /\ UNCHANGED <<subscriber, wrote, connVars>>

NextConn ==
    \/ \E c \in ConnIds : ConnAccept(c) /\ UNCHANGED <<codecVars, lifeVars, stopVars, hookVars, iterVars, taskVars>>
    \/ \E c \in ConnIds : ConnRead(c) /\ UNCHANGED <<codecVars, lifeVars, stopVars, hookVars, iterVars, taskVars>>
    \/ \E c \in ConnIds : ConnSend(c) /\ UNCHANGED <<codecVars, lifeVars, stopVars, hookVars, iterVars, taskVars>>
    \/ \E c \in ConnIds : ConnRecv(c) /\ UNCHANGED <<codecVars, lifeVars, stopVars, hookVars, iterVars, taskVars>>
    \/ ConnLoopHook /\ UNCHANGED <<codecVars, lifeVars, stopVars, hookVars, iterVars, taskVars>>
    \/ ConnLoopCommand /\ UNCHANGED <<codecVars, lifeVars, stopVars, hookVars, iterVars, taskVars>>

SpecConn == InitConn /\ [][NextConn]_vars


\* ------------------------------------------------------ connection errors
\* SpecFrame follows the connections one client after another opens, each
\* with the bytes it delivers before it closes or falls silent, next to the
\* loop and to one more connection, which may send a command or subscribe.
\*
\* The characters of the strings the daemon specification carries whole.
spell(s) ==
    CASE s = "abc" -> <<"a", "b", "c">>
      [] s = "zzz" -> <<"z", "z", "z">>
      [] s = "/tmp/x" -> <<"/", "t", "m", "p", "/", "x">>
      [] s = "/t.jsonl" -> <<"/", "t", ".", "j", "s", "o", "n", "l">>

spell_event(e) ==
    IF e.type = "SessionStart"
    THEN [type |-> e.type, session_id |-> spell(e.session_id),
          transcript_path |-> IF e.transcript_path = None THEN None
                              ELSE Some(spell(Unwrap(e.transcript_path))),
          cwd |-> spell(e.cwd)]
    ELSE [type |-> e.type, session_id |-> spell(e.session_id)]

\* The values well-formed frames carry.
FrameHookEvents ==
    {e \in DaemonHookEvents : e.type \in {"SessionStart", "Stop"} /\ e.session_id = "abc"}

FrameCommands == {"Ping"}

FrameValues ==
    {[as |-> "HookEvent", value |-> spell_event(e)] : e \in FrameHookEvents}
    \cup {[as |-> "DaemonCommand", value |-> [type |-> c]] : c \in FrameCommands}

\* A length prefix followed by a body.
frame_of(body) == to_be_bytes(as_u32(Len(body))) \o body

\* JSON texts that are neither a HookEvent nor a DaemonCommand.
NeitherTexts ==
    {json_string(<<"N", "o", "p", "e">>),
     json_null,
     json_object(<<>>),
     json_object(<<json_member("Stop", json_object(<<>>))>>),
     json_object(<<json_member("Ping", json_object(
                        <<json_member("session_id", json_string(spell("abc")))>>))>>),
     <<"x">>,
     <<>>}

\* Lengths at which a frame is cut: inside the prefix, after it, inside the
\* body and one byte before its end.
CutsOf(frame) == {0, 2, 4, 5, Len(frame) - 1}

\* The connections of SpecFrame: the kind of its first frame, the bytes the
\* client delivers and whether it then closes or stays connected and silent.
GoodFrames ==
    {[as |-> v.as, value |-> v.value, writer |-> "done",
      bytes |-> frame_of(as_bytes(to_string(v)))] : v \in FrameValues}

TruncatedFrames ==
    UNION {{[as |-> "truncated", value |-> None, writer |-> "done",
             bytes |-> SubSeq(frame_of(as_bytes(to_string(v))), 1, n)] :
               n \in CutsOf(frame_of(as_bytes(to_string(v))))} : v \in FrameValues}

TimedOutFrames ==
    {[as |-> "timeout", value |-> None, writer |-> "silent", bytes |-> f.bytes] :
        f \in TruncatedFrames}

InvalidUtf8Frames ==
    {[as |-> "invalid_utf8", value |-> None, writer |-> "done", bytes |-> frame_of(b)] :
        b \in {<<"C3", Quote>>, <<Quote, "A9", Quote>>,
               <<Quote>> \o as_bytes(KeyChars["Ping"]) \o <<"C3", Quote>>}}

NeitherFrames ==
    {[as |-> "neither", value |-> None, writer |-> "done", bytes |-> frame_of(as_bytes(t))] :
        t \in NeitherTexts}
    \cup {[as |-> "neither", value |-> None, writer |-> "done",
           bytes |-> to_be_bytes(Len(as_bytes(to_string(v))) - 1)
                     \o as_bytes(to_string(v))] : v \in FrameValues}

BadKinds == {"truncated", "timeout", "invalid_utf8", "neither"}

Frames ==
    GoodFrames \cup TruncatedFrames \cup TimedOutFrames \cup InvalidUtf8Frames
    \cup NeitherFrames

\* read_message (ipc.rs:144-155): read_exact of the four prefix bytes and of
\* as many body bytes as the prefix says, then String::from_utf8. None is the
\* error of any of the three; a read that finds fewer bytes than asked for
\* fails, by end of stream when the client closed and by the timeout (or at
\* once, the stream being non-blocking) when it is silent.
read_message_short(stream) ==
    IF Len(stream) < 4 THEN None
    ELSE from_utf8(SubSeq(stream, 5, Len(stream)))

read_message(stream) ==
    IF Len(stream) < 4 THEN None
    ELSE IF Len(stream) - 4 < from_be_bytes(SubSeq(stream, 1, 4)) THEN None
    ELSE from_utf8(SubSeq(stream, 5, 4 + from_be_bytes(SubSeq(stream, 1, 4))))

\* ipc.rs:69-74 and 77-79: the error of a connection task, like the error of
\* accept, is logged; the listener goes on.
after_connection_error == "listening"

after_accept_error == "listening"

\* The HookEvent of the daemon specification with this spelling.
unspell_event(v) == CHOOSE e \in FrameHookEvents : spell_event(e) = v

InitFrame ==
    /\ StoreInit /\ DaemonIdle /\ BusIdle /\ CodecIdle /\ LifeIdle
    /\ StopIdle /\ HookIdle /\ IterIdle /\ TaskIdle
    /\ conns = [c \in ConnIds |-> FreeConn]
    /\ flood = "none"

\* ipc.rs:53-69: a client connects, delivers its bytes, and its task is
\* spawned.
FrameArrive ==
    /\ ipc_task = "listening"
    /\ codec.reader = "idle"
    /\ \E f \in Frames :
        /\ f.as \notin BadKinds => accepted < MaxInputs
        /\ codec' = [codec EXCEPT !.writer = f.writer,
                                  !.reader = "accepted",
                                  !.sent = Some([as |-> f.as, value |-> f.value]),
                                  !.stream = f.bytes]
    /\ UNCHANGED <<storeVars, daemonVars, busVars, lifeVars, extraVars>>

\* The connection is over: its task has returned. What the client sent and
\* what the task made of it (None: read_message failed) stay on record until
\* the next client connects.
ConnectionOver(sent, parsed) ==
    [writer |-> "idle", reader |-> "idle", sent |-> sent, json |-> None,
     stream |-> <<>>, len |-> None, msg |-> None, parsed |-> parsed]

\* handle_connection (ipc.rs:84-140) for a first message that is not
\* Subscribe: read_message, the two parsing attempts, the send.
FrameHandle ==
    /\ codec.reader = "accepted"
    /\ \E msg \in {read_message(codec.stream)} :
        IF msg = None
        THEN /\ codec' = ConnectionOver(codec.sent, None)
             /\ ipc_task' = after_connection_error
             /\ UNCHANGED <<hook_rx, command_rx, accepted>>
        ELSE \E p \in {parse_message(Unwrap(msg))} :
                /\ codec' = ConnectionOver(codec.sent, Some(p))
                /\ UNCHANGED ipc_task
                /\ CASE p.as = "HookEvent" ->
                          /\ mpsc_has_capacity(hook_rx)
                          /\ hook_rx' = mpsc_send(hook_rx, unspell_event(p.value))
                          /\ accepted' = accepted + 1
                          /\ UNCHANGED command_rx
                     [] p.as = "DaemonCommand" ->
                          /\ ~handled_in_transport(p.value.type)
                          /\ mpsc_has_capacity(command_rx)
                          /\ command_rx' = mpsc_send(command_rx, p.value.type)
                          /\ accepted' = accepted + 1
                          /\ UNCHANGED hook_rx
                     [] OTHER -> UNCHANGED <<hook_rx, command_rx, accepted>>
    /\ UNCHANGED <<storeVars, event_tx, slack_service, dm_channel_id, slack_ts,
                   slack_calls, loop_state, signals, busVars, lifeVars, stopVars,
                   hookVars, iterVars, connVars>>

\* ipc.rs:77-79: accept() fails.
ListenerAcceptError ==
    /\ ipc_task = "listening"
    /\ ipc_task' = after_accept_error
    /\ UNCHANGED <<storeVars, daemonVars, busVars, codecVars, lifeVars, stopVars,
                   hookVars, iterVars, connVars>>

NextFrame ==
    \/ FrameArrive
    \/ FrameHandle
    \/ ListenerAcceptError
    \/ ConnAccept(1) /\ UNCHANGED <<codecVars, lifeVars, stopVars, hookVars, iterVars, taskVars>>
    \/ ConnRead(1) /\ UNCHANGED <<codecVars, lifeVars, stopVars, hookVars, iterVars, taskVars>>
    \/ ConnSend(1) /\ UNCHANGED <<codecVars, lifeVars, stopVars, hookVars, iterVars, taskVars>>
    \/ ConnRecv(1) /\ UNCHANGED <<codecVars, lifeVars, stopVars, hookVars, iterVars, taskVars>>
    \/ ConnLoopHook /\ UNCHANGED <<codecVars, lifeVars, stopVars, hookVars, iterVars, taskVars>>
    \/ ConnLoopCommand /\ UNCHANGED <<codecVars, lifeVars, stopVars, hookVars, iterVars, taskVars>>

SpecFrame == InitFrame /\ [][NextFrame]_vars


\* ------------------------------------------------------------ leaving the loop
\* SpecLive is Spec with the listener task allowed to end and with the
\* scheduling of select! stated: a signal that has been delivered stays
\* ready until its branch is taken, and select! polls its branches in random
\* order, so the branch of a delivered signal is not passed over forever.
\*
\* IpcServer::run returns only with an error and only before its accept loop
\* (ipc.rs:35-47); the task that ran it ends and drops hook_tx and command_tx
\* (daemon.rs:229-240), which closes both channels.
ListenerEnds ==
    /\ loop_state = "running"
    /\ ipc_task = "listening"
    /\ accepted = 0
    /\ ipc_task' = "ended"
    /\ UNCHANGED <<storeVars, daemonVars, busVars, codecVars, lifeVars, stopVars,
                   hookVars, iterVars, connVars>>

\* daemon.rs:313-322: a signal branch is disabled only if its pattern does not
\* match what recv() returns; the pattern is `_`, and recv() stays pending
\* until the signal arrives.
signal_branches_disabled == FALSE

\* daemon.rs:324-326: select! runs `else` when every branch is disabled: both
\* recv() calls returned None (channel closed and empty) and the signal
\* branches are disabled. No behaviour takes this step.
LoopElse ==
    /\ loop_state = "running"
    /\ ipc_task = "ended"
    /\ hook_rx = <<>>
    /\ command_rx = <<>>
    /\ signal_branches_disabled
    /\ loop_state' = "stopped"
    /\ UNCHANGED <<storeVars, hook_rx, command_rx, event_tx, slack_service,
                   dm_channel_id, slack_ts, slack_calls, signals, accepted,
                   busVars, otherVars>>

LiveSignal == LoopSignal /\ UNCHANGED <<busVars, otherVars>>

NextLive ==
    \/ ipc_task = "listening" /\ TransportSendHook /\ UNCHANGED <<busVars, otherVars>>
    \/ ipc_task = "listening" /\ TransportSendCommand /\ UNCHANGED <<busVars, otherVars>>
    \/ DeliverSignal /\ UNCHANGED <<busVars, otherVars>>
    \/ LoopHook /\ UNCHANGED <<busVars, otherVars>>
    \/ LoopCommand /\ UNCHANGED <<busVars, otherVars>>
    \/ LiveSignal
    \/ ListenerEnds

SpecLive == Init /\ [][NextLive]_vars /\ WF_vars(LiveSignal)


\* ------------------------------------------------------------ ingestion
\* SpecProgress is the loop with no termination signal delivered and with
\* the scheduling of select! stated: a channel that holds an item keeps its
\* branch ready until the loop takes the item, and select! polls its branches
\* in random order, so neither channel branch is passed over forever. Every
\* iteration is whole: the notifier call in it returns.
ProgressHook == LoopHook /\ UNCHANGED <<busVars, otherVars>>

ProgressCommand == LoopCommand /\ UNCHANGED <<busVars, otherVars>>

NextProgress ==
    \/ TransportSendHook /\ UNCHANGED <<busVars, otherVars>>
    \/ TransportSendCommand /\ UNCHANGED <<busVars, otherVars>>
    \/ ProgressHook
    \/ ProgressCommand

SpecProgress ==
    Init /\ [][NextProgress]_vars /\ WF_vars(ProgressHook) /\ WF_vars(ProgressCommand)


\* ------------------------------------------------- hook clients in a row
\* SpecOrder follows hook clients that run strictly one after another, each
\* sending one event on a connection of its own (main.rs:40-62: connect,
\* write, flush, exit without waiting for an answer), the listener that
\* accepts the connections in the order they were made, the task spawned for
\* each (ipc.rs:69) and the loop. The runtime is Runtime::new()
\* (daemon.rs:66), which runs spawned tasks on several worker threads, so the
\* tasks of two accepted connections proceed in any order.
\*
\* The events the clients are to send, in order.
OrderScripts ==
    {<<a, b>> : a \in {e \in DaemonHookEvents : e.session_id = "abc"},
                b \in {e \in DaemonHookEvents : e.session_id = "abc"}}

InitOrder ==
    /\ StoreInit
    /\ hook_rx = <<>> /\ command_rx = <<>> /\ event_tx = <<>>
    /\ slack_service \in BOOLEAN
    /\ dm_channel_id = None /\ slack_ts = 0 /\ slack_calls = <<>>
    /\ loop_state = "running" /\ signals = {} /\ accepted = 0
    /\ BusIdle /\ CodecIdle /\ LifeIdle /\ StopIdle /\ IterIdle /\ TaskIdle
    /\ ConnIdle
    /\ \E script \in OrderScripts : hook_client = [pc |-> "running", script |-> script, sent |-> 0]

\* main.rs:40-62: the next client connects, writes its frame and exits; its
\* connection waits in the listener's queue.
OrderClientSends ==
    /\ hook_client.pc = "running"
    /\ hook_client.sent < Len(hook_client.script)
    /\ hook_client' = [hook_client EXCEPT !.sent = @ + 1]
    /\ conns' = [conns EXCEPT ![hook_client.sent + 1] =
                    [pc |-> "pending", msg |-> hook_client.script[hook_client.sent + 1],
                     next |-> 0]]
    /\ UNCHANGED <<storeVars, daemonVars, busVars, codecVars, lifeVars, stopVars,
                   iterVars, flood, taskVars>>

\* ipc.rs:53-69: accept() returns the connection that has waited longest and
\* its task is spawned.
OrderAccept(c) ==
    /\ loop_state = "running"
    /\ conns[c].pc = "pending"
    /\ \A d \in ConnIds : d < c => conns[d].pc # "pending"
    /\ accept_ready(conns)
    /\ conns' = [conns EXCEPT ![c].pc = "accepted"]
    /\ UNCHANGED <<storeVars, daemonVars, busVars, codecVars, lifeVars, stopVars,
                   hookVars, iterVars, flood, taskVars>>

\* ipc.rs:96-99: the task reads the frame and parses it as a HookEvent.
OrderRead(c) ==
    /\ conns[c].pc = "accepted"
    /\ conns' = [conns EXCEPT ![c].pc = "sending"]
    /\ UNCHANGED <<storeVars, daemonVars, busVars, codecVars, lifeVars, stopVars,
                   hookVars, iterVars, flood, taskVars>>

\* ipc.rs:101-102: hook_tx.send(event).await completes and the task returns.
OrderSend(c) ==
    /\ conns[c].pc = "sending"
    /\ mpsc_has_capacity(hook_rx)
    /\ hook_rx' = mpsc_send(hook_rx, conns[c].msg)
    /\ accepted' = accepted + 1
    /\ conns' = [conns EXCEPT ![c] = FreeConn]
    /\ UNCHANGED <<storeVars, command_rx, event_tx, slack_service, dm_channel_id,
                   slack_ts, slack_calls, loop_state, signals, busVars, codecVars,
                   lifeVars, stopVars, hookVars, iterVars, flood, taskVars>>

NextOrder ==
    \/ OrderClientSends
    \/ \E c \in ConnIds : OrderAccept(c)
    \/ \E c \in ConnIds : OrderRead(c)
    \/ \E c \in ConnIds : OrderSend(c)
    \/ LoopHook /\ UNCHANGED <<busVars, otherVars>>

SpecOrder == InitOrder /\ [][NextOrder]_vars


\* ------------------------------------------------------- event subscription
\* SpecRecv follows one subscribed connection: the connection task writes
\* events with write_message, one write call at a time, and the terminal
\* client polls the connection with EventSubscription::try_recv on every
\* tick. Here a byte is a number, so that any four bytes read as a length.
MaxWritten == 2

\* The characters of the variant names of DaemonEvent and DaemonStatus.
EventKeyChars ==
    [
     Status |-> <<"S", "t", "a", "t", "u", "s">>,
     Connected |-> <<"C", "o", "n", "n", "e", "c", "t", "e", "d">>,
     SessionList |-> <<"S", "e", "s", "s", "i", "o", "n", "L", "i", "s", "t">>
    ]

\* The events the loop publishes for Ping (daemon.rs:306) and, with no
\* session in the store, for GetSessions (daemon.rs:300).
RecvEvents ==
    {[type |-> "Status", status |-> "Connected"],
     [type |-> "SessionList", sessions |-> "empty"]}

\* serde_json::to_string of a DaemonEvent: a newtype variant is an object of
\* one member, a unit variant its name, an empty Vec the text [].
to_string_DaemonEvent(e) ==
    IF e.type = "Status"
    THEN <<"{">> \o json_string(EventKeyChars["Status"]) \o <<":">>
         \o json_string(EventKeyChars[e.status]) \o <<"}">>
    ELSE <<"{">> \o json_string(EventKeyChars["SessionList"]) \o <<":">>
         \o <<"[", "]">> \o <<"}">>

\* serde_json::from_str::<DaemonEvent> on the texts a misframed stream can
\* hold: the two texts above read back, anything else is an error.
from_str_DaemonEvent(t) ==
    IF t = to_string_DaemonEvent([type |-> "SessionList", sessions |-> "empty"])
    THEN Some([type |-> "SessionList", sessions |-> "empty"])
    ELSE LET d == parse_document(t) IN
         IF d = None THEN None
         ELSE IF d[1][1] # "object" THEN None
         ELSE IF Len(d[1][2]) # 1 THEN None
         ELSE IF d[1][2][1][1] # EventKeyChars["Status"] THEN None
         ELSE IF d[1][2][1][2][1] # "string" THEN None
         ELSE IF d[1][2][1][2][2] # EventKeyChars["Connected"] THEN None
         ELSE Some([type |-> "Status", status |-> "Connected"])

\* The byte of each character the two texts are made of.
ascii ==
    [c \in {"{", "}", Quote, ":", "[", "]", "S", "t", "a", "u", "s", "C", "o", "n", "e",
            "c", "d", "i", "L"} |->
        CASE c = "{" -> 123 [] c = "}" -> 125 [] c = Quote -> 34 [] c = ":" -> 58
          [] c = "[" -> 91 [] c = "]" -> 93 [] c = "S" -> 83 [] c = "t" -> 116
          [] c = "a" -> 97 [] c = "u" -> 117 [] c = "s" -> 115 [] c = "C" -> 67
          [] c = "o" -> 111 [] c = "n" -> 110 [] c = "e" -> 101 [] c = "c" -> 99
          [] c = "d" -> 100 [] c = "i" -> 105 [] c = "L" -> 76]

\* str::as_bytes of an ASCII text, as numbers.
as_bytes_ascii(t) == [i \in 1..Len(t) |-> ascii[t[i]]]

\* String::from_utf8 of bytes below 128: always valid; a byte that is none
\* of the characters above reads as a control character.
char_of(b) ==
    IF \E c \in DOMAIN ascii : ascii[c] = b
    THEN CHOOSE c \in DOMAIN ascii : ascii[c] = b
    ELSE "U+0000"

from_utf8_ascii(b) == [i \in 1..Len(b) |-> char_of(b[i])]

\* EventSubscription::try_recv (ipc.rs:221-244) on the bytes the socket
\* holds: the stream is made non-blocking and read_message runs. read_exact
\* takes what there is; when that is less than it was asked for, the next
\* read fails with WouldBlock, the bytes taken are dropped with the buffer
\* and try_recv returns Ok(None). rest is what the socket holds afterwards.
try_recv(stream) ==
    IF Len(stream) < 4
    THEN [result |-> "None", event |-> None, rest |-> <<>>]
    ELSE IF Len(stream) - 4 < from_be_bytes(SubSeq(stream, 1, 4))
    THEN [result |-> "None", event |-> None, rest |-> <<>>]
    ELSE [result |-> IF from_str_DaemonEvent(from_utf8_ascii(
                            SubSeq(stream, 5, 4 + from_be_bytes(SubSeq(stream, 1, 4)))))
                        = None
                     THEN "Err" ELSE "Some",
          event |-> from_str_DaemonEvent(from_utf8_ascii(
                        SubSeq(stream, 5, 4 + from_be_bytes(SubSeq(stream, 1, 4))))),
          rest |-> SubSeq(stream, 5 + from_be_bytes(SubSeq(stream, 1, 4)), Len(stream))]

\* The connection is subscribed; nothing was written or read.
InitRecv ==
    /\ StoreInit /\ DaemonIdle /\ BusIdle /\ LifeIdle /\ ExtraIdle
    /\ codec = [writer |-> "idle", written |-> <<>>, json |-> <<>>, todo |-> <<>>,
                stream |-> <<>>, reader |-> "open", returned |-> <<>>,
                last |-> [result |-> "none", before |-> <<>>, after |-> <<>>]]

\* write_message, ipc.rs:158-160: the event the subscriber loop received is
\* serialized and its length taken; the four length bytes are to be written.
RecvWriteMessage ==
    /\ codec.writer = "idle"
    /\ Len(codec.written) < MaxWritten
    /\ \E e \in RecvEvents :
        codec' = [codec EXCEPT !.writer = "prefix",
                               !.written = Append(@, e),
                               !.json = to_string_DaemonEvent(e),
                               !.todo = to_be_bytes(as_u32(Len(as_bytes_ascii(
                                            to_string_DaemonEvent(e)))))]

\* One write call of write_all, ipc.rs:162-163: the socket takes some of the
\* bytes still to be written; after the last length byte come the bytes of
\* the text, after the last of those write_message returns.
RecvWrite ==
    /\ codec.writer \in {"prefix", "body"}
    /\ \E n \in 1..Len(codec.todo) :
        codec' = [codec EXCEPT
                    !.stream = @ \o SubSeq(codec.todo, 1, n),
                    !.todo = IF n < Len(codec.todo)
                             THEN SubSeq(codec.todo, n + 1, Len(codec.todo))
                             ELSE IF codec.writer = "prefix"
                             THEN as_bytes_ascii(codec.json)
                             ELSE <<>>,
                    !.writer = IF n < Len(codec.todo) THEN @
                               ELSE IF codec.writer = "prefix" THEN "body"
                               ELSE "idle"]

\* App::run_loop on a tick, app.rs:168-184: try_recv is called; an event is
\* handled, Ok(None) changes nothing and an error drops the subscription.
RecvTick ==
    /\ codec.reader = "open"
    /\ \E r \in {try_recv(codec.stream)} :
        codec' = [codec EXCEPT
                    !.stream = r.rest,
                    !.returned = IF r.result = "Some" THEN Append(@, Unwrap(r.event)) ELSE @,
                    !.reader = IF r.result = "Err" THEN "lost" ELSE @,
                    !.last = [result |-> r.result, before |-> codec.stream,
                              after |-> r.rest]]

NextRecv ==
    \/ RecvWriteMessage /\ UNCHANGED <<storeVars, daemonVars, busVars, lifeVars, extraVars>>
    \/ RecvWrite /\ UNCHANGED <<storeVars, daemonVars, busVars, lifeVars, extraVars>>
    \/ RecvTick /\ UNCHANGED <<storeVars, daemonVars, busVars, lifeVars, extraVars>>

SpecRecv == InitRecv /\ [][NextRecv]_vars


\* ============================================================== properties
\* Helpers used to state the properties.

\* The record returned by the last handle_hook_event call.
ReturnedSession == Unwrap(ret).session

\* The last store operation was handle_hook_event on an event of kind type.
LastEvent(type) == last_call.op = "handle_hook_event" /\ last_call.event.type = type

\* The step is a call of handle_hook_event on the store: no other step that
\* changes the state leaves the clock alone and ends with that call recorded.
StoreCallStep ==
    /\ last_call'.op = "handle_hook_event"
    /\ now' = now

\* The event of the call made in this step.
CallEvent == last_call'.event

\* Records in the registry that carry the external identifier x.
RecordsOf(x) == {id \in DOMAIN sessions : sessions[id].claude_session_id = Some(x)}

\* The external identifier x is registered in the external-id index.
Registered(x) == x \in DOMAIN claude_id_map

Terminal(status) == status = Completed \/ status[1] = "Failed"

\* The message contains "plan", in any mix of upper and lower case.
PlanLetters == <<{"p", "P"}, {"l", "L"}, {"a", "A"}, {"n", "N"}>>

MentionsPlan(m) ==
    \E i \in 1..Len(m) :
        /\ i + 3 <= Len(m)
        /\ \A k \in 1..4 : m[i + k - 1] \in PlanLetters[k]

\* The wait reason prescribed for a notification.
PrescribedReason(message, classifier) ==
    IF MentionsPlan(message) THEN "PlanApproval"
    ELSE IF classifier = Some("permission_prompt") THEN "PermissionPrompt"
    ELSE "IdlePrompt"

\* The status a hook event prescribes for the record it is applied to.
PrescribedStatus(e) ==
    CASE e.type = "SessionStart" -> Running
      [] e.type = "SessionEnd" -> Completed
      [] e.type = "Notification" ->
            WaitingForInput(PrescribedReason(e.message, e.notification_type))
      [] e.type = "Stop" -> WaitingForInput("IdlePrompt")

\* The step is an iteration of the event loop that received a hook event.
LoopHookStep == hook_rx # <<>> /\ hook_rx' = Tail(hook_rx)

\* The last loop iteration made a notifier call that returned an error.
NotifierFailed == slack_calls # <<>> /\ slack_calls[1].result # "ok"

\* C1: after any sequence of hook events the store holds at most one record
\* per external identifier, and right after a session-start the identifier of
\* that event has exactly one record.
C1_OneRecordPerExternalId ==
    /\ \A x \in ExtIds : Cardinality(RecordsOf(x)) <= 1
    /\ LastEvent("SessionStart") =>
          /\ ret # None
          /\ IsSome(ReturnedSession.claude_session_id)
          /\ Cardinality(RecordsOf(Unwrap(ReturnedSession.claude_session_id))) = 1

\* C1 witness: a repeated session-start for a running session was applied
\* while another session is tracked as well.
C1_Witness ==
    /\ LastEvent("SessionStart")
    /\ ret # None
    /\ ~Unwrap(ret).status_changed
    /\ Cardinality(DOMAIN sessions) = 2

\* C2: in every reachable state, a record has ended_at set if and only if
\* its status is terminal (Completed or Failed).
C2_EndedAtIffTerminal ==
    \A id \in DOMAIN sessions :
        IsSome(sessions[id].ended_at) <=> Terminal(sessions[id].status)

\* C3: a session-end, notification or stop event for an unregistered external
\* identifier returns no record and leaves registry and index unchanged.
C3_UnknownIdIsNoOp ==
    [][(/\ StoreCallStep
        /\ CallEvent.type \in {"SessionEnd", "Notification", "Stop"}
        /\ ~Registered(CallEvent.session_id)) =>
          /\ ret' = None
          /\ sessions' = sessions
          /\ claude_id_map' = claude_id_map]_vars

\* C3 witness: such an event returned nothing while the store tracks a session.
C3_Witness ==
    /\ last_call.op = "handle_hook_event"
    /\ last_call.event.type \in {"SessionEnd", "Notification", "Stop"}
    /\ ret = None
    /\ DOMAIN sessions # {}

\* C4: for a registered session a notification sets WaitingForInput(r) with
\* r = PlanApproval when the message mentions "plan" in any case, else
\* PermissionPrompt for classifier "permission_prompt", else IdlePrompt; a
\* stop event sets WaitingForInput(IdlePrompt).
C4_WaitReason ==
    [][(/\ StoreCallStep
        /\ CallEvent.type \in {"Notification", "Stop"}
        /\ Registered(CallEvent.session_id)) =>
          /\ ret' # None
          /\ ReturnedSession'.status = PrescribedStatus(CallEvent)
          /\ sessions'[claude_id_map[CallEvent.session_id]].status =
                PrescribedStatus(CallEvent)]_vars

\* C4 witness: a notification whose classifier is "permission_prompt" and
\* whose message mentions "Plan" put a session into
\* WaitingForInput(PlanApproval).
C4_Witness ==
    /\ LastEvent("Notification")
    /\ last_call.event.notification_type = Some("permission_prompt")
    /\ ret # None
    /\ ReturnedSession.status = WaitingForInput("PlanApproval")

\* C5 as stated: a session-end applied to a session created by session-start
\* sets Completed and an end timestamp strictly after the start timestamp.
C5_EndStrictlyAfterStart ==
    (LastEvent("SessionEnd") /\ ret # None) =>
        /\ ReturnedSession.status = Completed
        /\ IsSome(ReturnedSession.ended_at)
        /\ Unwrap(ReturnedSession.ended_at) > ReturnedSession.started_at

\* C5 amended: a session-end applied to a registered session sets Completed
\* and sets the end timestamp to the clock reading at that moment, which is
\* not earlier than the start timestamp.
C5_EndNotBeforeStart ==
    [][(/\ StoreCallStep
        /\ CallEvent.type = "SessionEnd"
        /\ Registered(CallEvent.session_id)) =>
          /\ ret' # None
          /\ ReturnedSession'.status = Completed
          /\ ReturnedSession'.ended_at = Some(now)
          /\ now >= ReturnedSession'.started_at
          /\ sessions'[claude_id_map[CallEvent.session_id]] = ReturnedSession']_vars

\* C5 witness: an ended session whose end timestamp is after its start.
C5_Witness ==
    /\ LastEvent("SessionEnd")
    /\ ret # None
    /\ ReturnedSession.status = Completed
    /\ Unwrap(ReturnedSession.ended_at) > ReturnedSession.started_at

\* C6: the internal identifier is immutable and unique: a hook event for a
\* registered external identifier returns the record with the identifier the
\* index held before, no record changes its identifier, and no two records
\* share one.
C6_InternalIdStable ==
    [][/\ (StoreCallStep /\ Registered(CallEvent.session_id)) =>
             /\ ret' # None
             /\ ReturnedSession'.id = claude_id_map[CallEvent.session_id]
             /\ claude_id_map'[CallEvent.session_id] = claude_id_map[CallEvent.session_id]
       /\ \A id \in DOMAIN sessions \cap DOMAIN sessions' :
             sessions'[id].id = sessions[id].id
       /\ \A a, b \in DOMAIN sessions' :
             a # b => sessions'[a].id # sessions'[b].id]_vars

\* C6 witness: a notification returned the record of the second session
\* created, under the identifier it was created with.
C6_Witness ==
    /\ LastEvent("Notification")
    /\ ret # None
    /\ ReturnedSession.id = 2
    /\ 2 \in DOMAIN sessions
    /\ sessions[2].id = 2

C8_ThreadCreatedOnce ==
    [][\A id \in DOMAIN sessions :
          IsSome(sessions[id].slack_thread) =>
              /\ id \in DOMAIN sessions'
              /\ sessions'[id].slack_thread = sessions[id].slack_thread
              /\ LoopHookStep =>
                    \A i \in 1..Len(slack_calls') :
                        ~(/\ slack_calls'[i].call = "post_session_start"
                          /\ slack_calls'[i].session_id = id)]_vars

\* C8 witness: an iteration handled an event for a session that already had
\* a thread and posted a status update into it.
C8_Witness ==
    /\ ret # None
    /\ IsSome(ReturnedSession.slack_thread)
    /\ slack_calls # <<>>
    /\ slack_calls[1].call = "post_thread_reply"
    /\ slack_calls[1].session_id = ReturnedSession.id

\* C9: an iteration whose hook event made the store return a record
\* publishes exactly one session-updated event; one whose event returned no
\* record publishes nothing and does not call the notifier.
C9_OneBroadcastPerRecord ==
    [][LoopHookStep =>
          IF ret' # None
          THEN /\ Len(event_tx') = 1
               /\ event_tx'[1].type = "SessionUpdated"
               /\ event_tx'[1].session.id = ReturnedSession'.id
          ELSE /\ event_tx' = <<>>
               /\ slack_calls' = <<>>]_vars

FallenBehind ==
    /\ subscriber.state = "open"
    /\ published - subscriber.next > BroadcastCapacity

\* Events published since the subscriber subscribed.
PublishedSinceSubscribed == published - subscriber.subscribed_at

\* The step writes an event to the subscriber's connection.
Delivers == SubscriberRecv /\ wrote' # <<>>

\* C11: a subscriber that falls behind the buffer of the topic misses events
\* (it has received fewer events than were published since it subscribed),
\* but the turn of its loop that observes the lag leaves its connection open
\* and positioned on a retained event, and events published afterwards can
\* still be delivered to it.
C11_LagNeverDisconnects ==
    /\ [][(FallenBehind /\ subscriber' # subscriber) =>
            /\ subscriber'.state = "open"
            /\ subscriber'.received = subscriber.received
            /\ subscriber'.next < published
            /\ published - subscriber'.next <= BroadcastCapacity]_vars
    /\ [](FallenBehind => subscriber.received < PublishedSinceSubscribed)
    /\ []((subscriber.state = "open" /\ subscriber.lagged) =>
            /\ subscriber.received < PublishedSinceSubscribed
            /\ (subscriber.next < published /\ ~FallenBehind) => ENABLED Delivers)

\* C11 witness: a subscriber that lagged has just been sent the newest event
\* of the topic and has received fewer events than were published.
C11_Witness ==
    /\ subscriber.state = "open"
    /\ subscriber.lagged
    /\ wrote = <<[conn |-> "subscriber", event |-> published]>>
    /\ subscriber.received < PublishedSinceSubscribed

\* C12: the events written to a subscriber are, in order, a subsequence of
\* the events published after it subscribed: every event written is one that
\* was published, was published after the subscription, and comes later on
\* the topic than every event written to that subscriber before (so none is
\* written twice and none out of order).
C12_OrderedSubsequence ==
    [][\A i \in 1..Len(wrote') :
          wrote'[i].conn = "subscriber" =>
            /\ Len(wrote') = 1
            /\ wrote'[i].event <= published
            /\ wrote'[i].event > subscriber.subscribed_at
            /\ wrote'[i].event > subscriber.last
            /\ subscriber'.received = subscriber.received + 1
            /\ subscriber'.last = wrote'[i].event]_vars

\* C12 witness: a connection that subscribed after an event had been
\* published has been sent its second event.
C12_Witness ==
    /\ subscriber.state = "open"
    /\ subscriber.subscribed_at = 1
    /\ subscriber.received = 2
    /\ wrote # <<>>
    /\ wrote[1].conn = "subscriber"

\* C13: a connection whose first message is a command other than Subscribe
\* has the command appended to the command channel and nothing written to it,
\* in that step or in any other; an event of the topic is written only to a
\* connection that was subscribed, and still open, when it was published.
C13_RequestBroadcastResponse ==
    [][/\ Len(command_rx') > Len(command_rx) =>
            /\ \E cmd \in {"GetSessions", "GetConfig", "Ping", "Unsubscribe"} :
                    command_rx' = Append(command_rx, cmd)
            /\ wrote' = <<>>
            /\ published' = published
            /\ subscriber' = subscriber
       /\ \A i \in 1..Len(wrote') :
            /\ wrote'[i].conn = "subscriber"
            /\ subscriber.state = "open"
            /\ subscriber'.state = "open"
            /\ wrote'[i].event > subscriber.subscribed_at]_vars

\* C13 witness: the loop answered a forwarded Ping, the channel is empty
\* again, and the response has just been written to the subscriber.
C13_Witness ==
    /\ last_call = [op |-> "command", command |-> "Ping"]
    /\ command_rx = <<>>
    /\ event_tx = <<StatusConnected>>
    /\ subscriber.state = "open"
    /\ subscriber.subscribed_at < published
    /\ wrote = <<[conn |-> "subscriber", event |-> published]>>

\* ------------------------------------------------------------- commands
\* The step is an iteration of the event loop that received a command.
LoopCommandStep == command_rx # <<>> /\ command_rx' = Tail(command_rx)

C15_NeverOnCommandChannel ==
    \A i \in 1..Len(command_rx) : command_rx[i] \notin {"Subscribe", "Unsubscribe"}

\* C15, amended: Subscribe is never placed on the command channel; an
\* Unsubscribe that the transport forwarded is dequeued by the loop's command
\* branch, which sends nothing, leaves the store alone and keeps running.
C15_OnlySubscribeStaysInTransport ==
    /\ [](\A i \in 1..Len(command_rx) : command_rx[i] # "Subscribe")
    /\ [][(LoopCommandStep /\ Head(command_rx) = "Unsubscribe") =>
            /\ event_tx' = <<>>
            /\ sessions' = sessions
            /\ claude_id_map' = claude_id_map
            /\ loop_state' = loop_state]_vars

\* C15 witness: the loop has dequeued an Unsubscribe and sent nothing, while
\* the store holds a session.
C15_Witness ==
    /\ last_call = [op |-> "command", command |-> "Unsubscribe"]
    /\ event_tx = <<>>
    /\ sessions # <<>>
    /\ loop_state = "running"

\* ---------------------------------------------------------------- sweep
\* The step is a call of cleanup_old_sessions on the store.
CleanupStep ==
    /\ last_call'.op = "cleanup_old_sessions"
    /\ now' = now

\* Records that are terminal and ended more than max_age ago.
Expired(max_age) ==
    {id \in DOMAIN sessions :
        /\ Terminal(sessions[id].status)
        /\ sessions[id].ended_at # None
        /\ now - sessions[id].ended_at[1] > max_age}

\* C16: a sweep removes exactly the records that are terminal and whose end
\* timestamp is older than maxAge, each from the registry and from the
\* external-id index; every other record (terminal and younger, or active of
\* any age) and its index entry stay as they were.
C16_SweepExpired ==
    [][CleanupStep =>
        LET gone == Expired(last_call'.max_age) IN
        /\ DOMAIN sessions' = DOMAIN sessions \ gone
        /\ \A id \in DOMAIN sessions' : sessions'[id] = sessions[id]
        /\ DOMAIN claude_id_map' =
              {x \in DOMAIN claude_id_map : claude_id_map[x] \notin gone}
        /\ \A x \in DOMAIN claude_id_map' :
              claude_id_map'[x] = claude_id_map[x]]_vars

\* C16 witness: of two completed sessions a sweep has removed the older one
\* and kept the one that ended at the current clock reading.
C16_Witness ==
    /\ last_call = [op |-> "cleanup_old_sessions", max_age |-> 0]
    /\ next_uuid = 3
    /\ Cardinality(DOMAIN sessions) = 1
    /\ Cardinality(DOMAIN claude_id_map) = 1
    /\ \A id \in DOMAIN sessions :
          sessions[id].status = Completed /\ sessions[id].ended_at = Some(now)

\* ----------------------------------------------------------- wire codec
\* C17: a HookEvent or DaemonCommand written as a 4-byte big-endian length
\* prefix followed by its JSON text, then read as one frame and parsed, is
\* parsed as the type it was written as and equals the value written; the
\* read never fails.
C17_RoundTrip ==
    /\ codec.reader # "failed"
    /\ codec.reader = "parsed" => codec.parsed = codec.sent

\* C17 witness: a Notification whose message holds a quote and a backslash
\* has been written, read and parsed.
C17_Witness ==
    /\ codec.reader = "parsed"
    /\ codec.sent # None
    /\ codec.sent[1].as = "HookEvent"
    /\ codec.sent[1].value.type = "Notification"
    /\ codec.sent[1].value.message = <<Quote, "n", Backslash>>
    /\ codec.sent[1].value.notification_type # None
    /\ codec.parsed = codec.sent

\* A daemon loop that runs with no listener: its listener task failed.
LoopWithoutListener(p) == procs[p].pc = "running" /\ procs[p].ipc = "failed"

\* C18: when the transport listener cannot bind at startup, the daemon does
\* not remain in its event loop as a running process without a listener.
C18_BindFailureAborts == \A p \in Procs : ~LoopWithoutListener(p)

\* The daemon processes whose event loop is running.
RunningLoops == {p \in Procs : procs[p].pc = "running"}

\* The socket file was bound by a daemon process that is still alive.
SocketOwnerAlive ==
    /\ socket_file # None
    /\ socket_file[1] \in Procs
    /\ procs[socket_file[1]].pc = "running"

\* C19: under any interleaving of foreground and background starts against
\* the same PID file and socket path, at most one daemon event loop runs at
\* a time, and no step removes or rebinds the socket file of a daemon
\* process that is still alive.
C19_RefuseDoubleStart ==
    /\ [](Cardinality(RunningLoops) <= 1)
    /\ [][SocketOwnerAlive => socket_file' = socket_file]_vars

\* C19 witness: a start was turned away, by the liveness check or by the
\* PID-file lock, while another daemon runs and listens.
C19_Witness ==
    \E p, q \in Procs :
        /\ p # q
        /\ procs[p] = [pc |-> "running", ipc |-> "listening"]
        /\ socket_file = Some(p)
        /\ procs[q].pc \in {"refused", "failed"}

\* The facts the liveness probe is to establish, read off the state: the PID
\* file exists and holds a number, the number names a live process, and a
\* live process listens on the socket file.
PidFileNamesLiveProcess ==
    /\ pid_file # None
    /\ pid_file[1][1] = "pid"
    /\ \/ pid_file[1][2] = ForeignPid
       \/ pid_file[1][2] \in RunningLoops

SocketConnects ==
    \E q \in RunningLoops : socket_file = Some(q) /\ procs[q].ipc = "listening"

\* C20: the liveness probe returns true only if the PID file exists, parses
\* to the identifier of a running process and a connection to the socket can
\* be established; in every other case it returns false.
C20_LivenessProbe ==
    [][probe' # probe =>
        (probe'[1].result <=> (PidFileNamesLiveProcess /\ SocketConnects))]_vars

\* C20 witness: the probe has answered true of a daemon whose pid is in the
\* PID file and which listens on the socket file.
C20_Witness ==
    /\ probe # None
    /\ probe[1].result
    /\ PidFileNamesLiveProcess
    /\ SocketConnects

\* ------------------------------------------------------------ stop
\* A step in which an execution of Daemon::stop returns.
StopReturnStep == stopper'.pc = "done" /\ stopper' # stopper

\* C21: every execution of the stop operation, whatever its outcome, ends
\* with both the PID file and the socket file removed.
C21_StopRemovesBothFiles ==
    [][StopReturnStep => (pid_file' = None /\ socket_file' = None)]_vars

\* ------------------------------------------------------------ hook client
\* The names the hook binary is to forward.
RecognizedNames == {"SessionStart", "SessionEnd", "Notification", "Stop"}

\* The complete frames in a stream of bytes: four bytes of length, then that
\* many bytes of body.
RECURSIVE frames_in(_)
frames_in(b) ==
    IF Len(b) < 4 THEN <<>>
    ELSE IF Len(b) < 4 + from_be_bytes(SubSeq(b, 1, 4)) THEN <<>>
    ELSE <<SubSeq(b, 5, 4 + from_be_bytes(SubSeq(b, 1, 4)))>>
         \o frames_in(SubSeq(b, 5 + from_be_bytes(SubSeq(b, 1, 4)), Len(b)))

\* The body of a frame reads as a HookEvent of the input's kind for the
\* input's session.
CarriesMappedEvent(body, input) ==
    /\ from_utf8(body) # None
    /\ from_str_HookEvent(Unwrap(from_utf8(body))) # None
    /\ Unwrap(from_str_HookEvent(Unwrap(from_utf8(body)))).type = input.hook_event_name
    /\ Unwrap(from_str_HookEvent(Unwrap(from_utf8(body)))).session_id = input.session_id

C23_FirstArrivalOrder ==
    [][/\ Len(hook_rx') > Len(hook_rx) =>
            /\ Len(hook_rx') = Len(hook_rx) + 1
            /\ SubSeq(hook_rx', 1, Len(hook_rx)) = hook_rx
            /\ UNCHANGED storeVars
       /\ Len(hook_rx') = Len(hook_rx) => hook_rx' = hook_rx
       /\ Len(hook_rx') < Len(hook_rx) =>
            /\ hook_rx' = SubSeq(hook_rx, 2, Len(hook_rx))
            /\ last_call' = [op |-> "handle_hook_event", event |-> hook_rx[1]]
            /\ \E r \in {handle_hook_event(sessions, claude_id_map, hook_rx[1],
                                           next_uuid, now)} :
                    /\ claude_id_map' = r.claude_id_map
                    /\ ret' = r.ret
            /\ command_rx' = command_rx
       /\ Len(command_rx') > Len(command_rx) =>
            /\ Len(command_rx') = Len(command_rx) + 1
            /\ SubSeq(command_rx', 1, Len(command_rx)) = command_rx
            /\ UNCHANGED storeVars
       /\ Len(command_rx') = Len(command_rx) => command_rx' = command_rx
       /\ Len(command_rx') < Len(command_rx) =>
            /\ command_rx' = SubSeq(command_rx, 2, Len(command_rx))
            /\ last_call' = [op |-> "command", command |-> command_rx[1]]
            /\ hook_rx' = hook_rx
       /\ (hook_rx' = hook_rx /\ command_rx' = command_rx) =>
            UNCHANGED <<sessions, claude_id_map, last_call>>]_vars

\* C23 witness: the loop has applied a session-start while the session-end
\* for the same session, enqueued behind it, is still waiting.
C23_Witness ==
    /\ last_call.op = "handle_hook_event"
    /\ last_call.event.type = "SessionStart"
    /\ hook_rx # <<>>
    /\ hook_rx[1].type = "SessionEnd"
    /\ hook_rx[1].session_id = last_call.event.session_id
    /\ \E id \in DOMAIN sessions : sessions[id].ended_at = None

\* ------------------------------------------------- one order of mutation
\* What a step of the loop takes from its three sources.
TakesHook == Len(hook_rx') < Len(hook_rx)

TakesCommand == Len(command_rx') < Len(command_rx)

TakesSignal == loop_state = "running" /\ loop_state' = "stopped"

\* C24: the event loop services exactly one source per iteration, and the
\* store mutation, the notifier call and the broadcast for one hook event all
\* complete before the next hook event or any command is handled: while an
\* iteration is under way nothing is taken from a channel and no signal is
\* serviced, the store changes only by the thread of that iteration's session
\* being attached, and the update that is sent is the record the store holds;
\* a session list is sent only between iterations and is the whole store.
C24_SingleOrderOfMutation ==
    [][/\ ~(TakesHook /\ TakesCommand)
       /\ ~(TakesHook /\ TakesSignal)
       /\ ~(TakesCommand /\ TakesSignal)
       /\ iteration.pc # "select" =>
            /\ ~TakesHook /\ ~TakesCommand /\ ~TakesSignal
            /\ claude_id_map' = claude_id_map
            /\ \A id \in DOMAIN sessions :
                   /\ id \in DOMAIN sessions'
                   /\ id # Unwrap(iteration.session).id => sessions'[id] = sessions[id]
            /\ DOMAIN sessions' = DOMAIN sessions
       /\ (iteration.pc = "broadcast" /\ iteration'.pc = "select") =>
            event_tx' = <<[type |-> "SessionUpdated",
                           session |-> sessions[Unwrap(iteration.session).id]]>>
       /\ (TakesCommand /\ command_rx[1] = "GetSessions") =>
            /\ iteration.pc = "select"
            /\ iteration'.pc = "select"
            /\ event_tx' = <<[type |-> "SessionList",
                              sessions |-> {sessions[id] : id \in DOMAIN sessions}]>>]_vars

\* C24 witness: a notifier call is in flight for a session the store already
\* holds, and a GetSessions command and a further hook event are waiting.
C24_Witness ==
    /\ iteration.pc = "await_notifier"
    /\ Unwrap(iteration.session).id \in DOMAIN sessions
    /\ command_rx # <<>>
    /\ command_rx[1] = "GetSessions"
    /\ hook_rx # <<>>

\* ------------------------------------------------------- connection tasks
\* The channel a sending task is waiting to put its message on, now and
\* after the step.
ChannelOf(c) == IF conns[c].msg = "hook" THEN hook_rx ELSE command_rx

ChannelOfNext(c) == IF conns[c].msg = "hook" THEN hook_rx' ELSE command_rx'

\* The value a sending task holds.
ValueOf(c) == IF conns[c].msg = "hook" THEN FloodHookEvent ELSE conns[c].msg

\* C25: the hook channel and the command channel never hold more than 100
\* items each; a connection task that wants to enqueue on a full channel
\* stays suspended, holding its message, until there is space, and then the
\* message joins the back of the channel; an item leaves a channel only by the
\* loop taking it from the front and handling it.
C25_BackpressureWithoutLoss ==
    /\ [](Len(hook_rx) <= ChannelCapacity /\ Len(command_rx) <= ChannelCapacity)
    /\ [][/\ \A c \in ConnIds :
                conns[c].pc = "sending" =>
                    \/ conns'[c] = conns[c]
                    \/ /\ Len(ChannelOf(c)) < ChannelCapacity
                       /\ ChannelOfNext(c) = Append(ChannelOf(c), ValueOf(c))
                       /\ conns'[c].pc = "free"
          /\ Len(hook_rx') < Len(hook_rx) =>
                /\ hook_rx' = Tail(hook_rx)
                /\ last_call' = [op |-> "handle_hook_event", event |-> Head(hook_rx)]
          /\ Len(command_rx') < Len(command_rx) =>
                /\ command_rx' = Tail(command_rx)
                /\ last_call' = [op |-> "command", command |-> Head(command_rx)]
          /\ Len(hook_rx') > Len(hook_rx) =>
                \E c \in ConnIds : conns[c].pc = "sending" /\ conns'[c].pc = "free"
          /\ Len(command_rx') > Len(command_rx) =>
                \E c \in ConnIds : conns[c].pc = "sending" /\ conns'[c].pc = "free"]_vars

\* C25 witness: the hook channel holds 100 events and a connection task is
\* suspended with the next one.
C25_Witness ==
    /\ Len(hook_rx) = ChannelCapacity
    /\ \E c \in ConnIds : conns[c].pc = "sending" /\ conns[c].msg = "hook"

\* A subscriber for which the topic holds an event it has not received.
HasPendingEvent(c) == conns[c].pc = "subscribed" /\ conns[c].next < published

\* A task that is suspended on a full channel.
SuspendedOnFull(c) ==
    conns[c].pc = "sending" /\ Len(ChannelOf(c)) = ChannelCapacity

\* C26: whatever the other connection tasks are doing (not yet read their
\* first message, suspended on a full channel, looping as subscribers), the
\* listener can accept a new connection and every subscriber can receive the
\* events published to it.
C26_ConnectionsDoNotBlock ==
    \A c \in ConnIds :
        /\ (conns[c].pc = "free" /\ loop_state = "running") => ENABLED ConnAccept(c)
        /\ HasPendingEvent(c) => ENABLED ConnRecv(c)

\* C26 witness: one task is suspended on the full hook channel while the
\* other, a subscriber, has an event to receive.
C26_Witness ==
    \E c, d \in ConnIds :
        /\ c # d
        /\ SuspendedOnFull(c)
        /\ HasPendingEvent(d)

\* -------------------------------------------------------- classification
\* C28: the JSON text of a HookEvent parses as a HookEvent and not as a
\* DaemonCommand, the JSON text of a DaemonCommand parses as a DaemonCommand
\* and not as a HookEvent, and the connection task, trying HookEvent first,
\* classifies every frame as the kind its client wrote.
C28_UnambiguousClassification ==
    codec.sent # None =>
        /\ codec.sent[1].as = "HookEvent" =>
              /\ from_str_HookEvent(Unwrap(codec.json)) # None
              /\ from_str_DaemonCommand(Unwrap(codec.json)) = None
        /\ codec.sent[1].as = "DaemonCommand" =>
              /\ from_str_DaemonCommand(Unwrap(codec.json)) # None
              /\ from_str_HookEvent(Unwrap(codec.json)) = None
        /\ codec.parsed # None => codec.parsed[1].as = codec.sent[1].as

\* C28 witness: a command client's Ping has been read and classified as a
\* DaemonCommand.
C28_Witness ==
    /\ codec.reader = "parsed"
    /\ codec.sent # None
    /\ codec.sent[1] = [as |-> "DaemonCommand", value |-> [type |-> "Ping"]]
    /\ codec.parsed[1].as = "DaemonCommand"

\* ----------------------------------------------------- connection errors
\* The task of the connection under way returns in this step.
FrameHandleStep == codec.reader = "accepted" /\ codec'.reader = "idle"

\* C27: when the first frame of a connection is truncated, times out, is not
\* valid UTF-8 or is JSON that is neither a HookEvent nor a DaemonCommand,
\* the task of that connection ends (with the read error in the first three
\* cases, silently in the last) having put nothing on the hook channel or the
\* command channel and changed nothing of the store; the listener keeps
\* listening, the loop keeps running and the other connection is left as it
\* was.
C27_ErrorsScopedToConnection ==
    /\ [](ipc_task = "listening" /\ loop_state = "running")
    /\ []((codec.reader = "idle" /\ codec.sent # None /\ codec.sent[1].as \in BadKinds) =>
            IF codec.sent[1].as = "neither"
            THEN codec.parsed = Some([as |-> "unparsed"])
            ELSE codec.parsed = None)
    /\ [][(FrameHandleStep /\ codec.sent[1].as \in BadKinds) =>
            /\ hook_rx' = hook_rx
            /\ command_rx' = command_rx
            /\ UNCHANGED <<sessions, claude_id_map, next_uuid, event_tx, published>>
            /\ conns' = conns]_vars

\* C27 witness: a frame that is not valid UTF-8 has been refused while a
\* session is on record, an event waits in the hook channel and another
\* connection is subscribed.
C27_Witness ==
    /\ codec.reader = "idle"
    /\ codec.sent # None
    /\ codec.sent[1].as = "invalid_utf8"
    /\ codec.parsed = None
    /\ DOMAIN sessions # {}
    /\ hook_rx # <<>>
    /\ conns[1].pc = "subscribed"

\* ------------------------------------------------------- leaving the loop
\* C29: once SIGTERM or SIGINT has been delivered the loop eventually leaves
\* (every iteration in progress being one that ends); from the moment the
\* loop has taken the signal branch, no hook event and no command is taken
\* from a channel, the store is not changed and nothing is sent on the topic.
C29_SignalEndsLoop ==
    /\ (signals # {}) ~> (loop_state # "running")
    /\ [][loop_state = "stopped" =>
            /\ loop_state' = "stopped"
            /\ UNCHANGED <<sessions, claude_id_map, next_uuid, hook_rx, command_rx,
                           event_tx, slack_calls, slack_ts>>]_vars

\* C29 witness: the loop has left on SIGINT with an event still waiting in
\* the hook channel.
C29_Witness ==
    /\ loop_state = "stopped"
    /\ "SIGINT" \in signals
    /\ hook_rx # <<>>

\* C30: when the listener task has ended, so that every sender of both
\* channels is dropped, and both channels are empty, the loop can leave by
\* the `else` branch of select! whether or not a signal has been delivered.
C30_ClosedChannelsEndLoop ==
    (loop_state = "running" /\ ipc_task = "ended" /\ hook_rx = <<>> /\ command_rx = <<>>)
        => ENABLED LoopElse

\* ------------------------------------------------- graceful, then forceful
\* A step of an execution of Daemon::stop that is waiting for the process.
StopWaitStep == stopper.pc = "waiting" /\ stopper' # stopper

\* C31: stop starts to wait only after SIGTERM was delivered to the process
\* named by the PID file; it sends SIGKILL only after the process was found
\* alive in each of 50 polls; a poll that finds the process gone ends stop
\* with success, no SIGKILL having been sent.
C31_GracefulThenForceful ==
    /\ [](stopper.pc = "waiting" => stopper.polls \in 0..50)
    /\ [][/\ (stopper.pc # "waiting" /\ stopper'.pc = "waiting") =>
                /\ kill_result(procs, stopper'.pid) = "ok"
                /\ stopper'.polls = 0
          /\ (StopWaitStep /\ stopper'.outcome = "force_killed") =>
                stopper.polls = 50
          /\ (StopWaitStep /\ stopper.polls < 50
                /\ ~is_process_running(procs, stopper.pid)) =>
                /\ stopper'.pc = "done"
                /\ stopper'.outcome = "graceful"
                /\ procs' = procs
          /\ (StopWaitStep /\ stopper.polls < 50
                /\ is_process_running(procs, stopper.pid)) =>
                /\ stopper'.pc = "waiting"
                /\ stopper'.polls = stopper.polls + 1
                /\ procs' = procs]_vars

\* C31 witness: stop has sent SIGKILL to a process that outlived the polls.
C31_Witness ==
    /\ stopper.pc = "done"
    /\ stopper.outcome = "force_killed"
    /\ \E p \in Procs : procs[p].pc = "exited"
    /\ pid_file = None

\* --------------------------------------------------- the status formatter
\* C32: no iteration of the loop hands a Completed session to the formatter
\* of status messages, whose branch for Completed is unreachable!(): the loop
\* never ends by that panic.
C32_FormatterNeverSeesCompleted == loop_state # "panicked"

\* ------------------------------------------------------ index consistency
\* C33: every entry of the external-id index names a record of the registry
\* whose external identifier is the entry's key, and every record that has
\* an external identifier is named by the index entry of that identifier
\* (and, the index being a map, by no other).
C33_IndexConsistency ==
    /\ \A ext \in DOMAIN claude_id_map :
          /\ claude_id_map[ext] \in DOMAIN sessions
          /\ sessions[claude_id_map[ext]].claude_session_id = Some(ext)
    /\ \A id \in DOMAIN sessions :
          sessions[id].claude_session_id # None =>
              /\ Unwrap(sessions[id].claude_session_id) \in DOMAIN claude_id_map
              /\ {ext \in DOMAIN claude_id_map : claude_id_map[ext] = id}
                    = {Unwrap(sessions[id].claude_session_id)}

\* C33 witness: a sweep has removed one session, with its index entry, and
\* left another, which has a thread.
C33_Witness ==
    /\ last_call.op = "cleanup_old_sessions"
    /\ Cardinality(DOMAIN sessions) = 1
    /\ Cardinality(DOMAIN claude_id_map) = 1
    /\ next_uuid = 3
    /\ \E id \in DOMAIN sessions : sessions[id].slack_thread # None

\* ------------------------------------------------- late events after the end
\* C36: a notification or stop event applied when the session of its
\* external identifier is Completed does not make that session
\* WaitingForInput.
C36_CompletedIsAbsorbing ==
    [][\A id \in DOMAIN sessions :
          (/\ sessions[id].status = Completed
           /\ id \in DOMAIN sessions'
           /\ last_call'.op = "handle_hook_event"
           /\ last_call'.event.type \in {"Notification", "Stop"}
           /\ Some(last_call'.event.session_id) = sessions[id].claude_session_id)
          => sessions'[id].status[1] # "WaitingForInput"]_vars

\* ------------------------------------------- broadcasts and the store
\* The records the step creates or changes.
ChangedRecords ==
    {id \in DOMAIN sessions' : id \notin DOMAIN sessions \/ sessions'[id] # sessions[id]}

\* Each session-updated event the step publishes carries the store's record
\* of that session as the step leaves it.
PublishesStoreRecord ==
    \A i \in 1..Len(event_tx') :
        event_tx'[i].type = "SessionUpdated" =>
            /\ event_tx'[i].session.id \in DOMAIN sessions'
            /\ event_tx'[i].session = sessions'[event_tx'[i].session.id]

\* C37: every session-updated event carries the store's record of its
\* session as it is when the event is published, thread included; and every
\* iteration that changes a record publishes it, so that the last
\* session-updated event of a session is the store's record of it.
C37_BroadcastEqualsStore ==
    [][LoopHookStep =>
          /\ PublishesStoreRecord
          /\ \A id \in ChangedRecords : event_tx' = <<SessionUpdated(sessions'[id])>>]_vars

\* ------------------------------------------- thread creation and status posts
\* The record the store returned to the iteration, before any thread is
\* attached to it.
ReturnedRecord == Unwrap(ret').session

\* C38: with a notifier configured, every hook event for which the store
\* returns a record without a thread makes exactly one post_session_start
\* call, whether or not the status changed, and no status post; a
\* post_thread_reply call is made only for an event whose returned record
\* had a thread and whose status changed; no event makes both calls.
C38_CreateOrPost ==
    [][LoopHookStep =>
          /\ Len(slack_calls') <= 1
          /\ (slack_service /\ ret' # None /\ ReturnedRecord.slack_thread = None) =>
                /\ Len(slack_calls') = 1
                /\ slack_calls'[1].call = "post_session_start"
                /\ slack_calls'[1].session_id = ReturnedRecord.id
          /\ (slack_calls' # <<>> /\ slack_calls'[1].call = "post_thread_reply") =>
                /\ ret' # None
                /\ ReturnedRecord.slack_thread # None
                /\ Unwrap(ret').status_changed
          /\ (slack_calls' # <<>> /\ slack_calls'[1].call = "post_session_start") =>
                /\ ret' # None
                /\ ReturnedRecord.slack_thread = None]_vars

\* C38 witness: thread creation failed for a session and the next event for
\* it, which did not change its status, made the call again.
C38_Witness ==
    /\ slack_calls # <<>>
    /\ slack_calls[1].call = "post_session_start"
    /\ ret # None
    /\ ~Unwrap(ret).status_changed
    /\ Unwrap(ret).session.slack_thread = None

\* -------------------------------------------------------------- ingestion
\* C39: with no termination signal delivered, every hook event put on the
\* hook channel is eventually taken by the loop and applied, and every
\* command put on the command channel is eventually taken and handled: the
\* senders being finitely many, each channel that holds an item is
\* eventually empty, whatever the other channel holds.
C39_IngestionProgress ==
    /\ (hook_rx # <<>>) ~> (hook_rx = <<>>)
    /\ (command_rx # <<>>) ~> (command_rx = <<>>)

\* -------------------------------------------------- hook clients in a row
\* Every event of the script has been sent, forwarded and applied.
OrderAllApplied ==
    /\ hook_client.sent = Len(hook_client.script)
    /\ accepted = Len(hook_client.script)
    /\ hook_rx = <<>>

\* C34: when a session-start for "abc" is fully sent before a session-end
\* for "abc" is sent, each by a hook client of its own, then once both have
\* been applied the store holds "abc" as Completed.
C34_AppliedInSendOrder ==
    (/\ OrderAllApplied
     /\ hook_client.script[1].type = "SessionStart"
     /\ hook_client.script[2].type = "SessionEnd")
    => /\ "abc" \in DOMAIN claude_id_map
       /\ sessions[claude_id_map["abc"]].status = Completed

\* The first sequence is the beginning of the second.
StartsWith(s, t) == Len(s) <= Len(t) /\ s = SubSeq(t, 1, Len(s))

\* C35: however the bytes of the daemon's frames are split across polls, the
\* events successive try_recv calls return are the events written to the
\* connection, in order, with none missing once every byte written was
\* taken; polling never loses the connection; and a call that returns None
\* leaves the bytes it found in the socket.
C35_TryRecvPreservesFraming ==
    /\ StartsWith(codec.returned, codec.written)
    /\ codec.reader = "open"
    /\ (codec.writer = "idle" /\ codec.stream = <<>>) => codec.returned = codec.written
    /\ codec.last.result = "None" => codec.last.after = codec.last.before

====
